---- MODULE Spec2Model ----
(***************************************************************************)
(* Model of the incentive mechanism of agatha:                             *)
(*   agatha/backend/incentive_mechanism/incentive.py                       *)
(*     calculate_score, normalize_and_select,                              *)
(*     calculate_delivery_and_incentive, get_employee_incentive.           *)
(*                                                                         *)
(* Three specifications share the module:                                  *)
(*   SpecScore   calculate_score applied to an answer type and an answer   *)
(*               text drawn from bounded sets;                             *)
(*   SpecSelect  normalize_and_select applied to a score map drawn from    *)
(*               bounded sets;                                             *)
(*   Spec        get_employee_incentive for one respondent: the lookup,    *)
(*               the loop of calculate_delivery_and_incentive (one action  *)
(*               per iteration), its selection and the creation of the     *)
(*               EmployeeModel.                                            *)
(***************************************************************************)
EXTENDS Integers, Sequences, FiniteSets, TLC

VARIABLES
    answer_type,      \* calculate_score: the AnswerType argument
    answer,           \* calculate_score: the answer argument (a string)
    score_result,     \* calculate_score: what the call did (Pending before)
    score_dict,       \* normalize_and_select: the argument (an ordered dict)
    selected_id,      \* normalize_and_select: the returned id (None before)
    answers,          \* the respondent's QuestionAnswer rows
    employee_model,   \* the respondent's stored EmployeeModel (None: no row)
    pc,               \* position of get_employee_incentive
    idx,              \* index of the next answer of the for loop
    delivery_scores,  \* calculate_delivery_and_incentive: local ordered dict
    incentive_scores, \* calculate_delivery_and_incentive: local ordered dict
    score_record,     \* the local variable score_record (a reference)
    config,           \* what calculate_delivery_and_incentive returned
    ret,              \* what get_employee_incentive returned
    exc,              \* the exception that left the call (None: none)
    study_id,         \* the study the vignettes belong to
    factor_levels,    \* generate_vignette_id: the keyword arguments, in order
    vignette_id,      \* generate_vignette_id: the returned string (None before)
    vignette,         \* parse_vignette_id: what the call did (Pending before)
    factors,          \* get_factors: factor -> level -> text (ordered dicts)
    vignette_template, \* get_vignette_template_by_id: the template or None
    preset_factors,   \* generate_vignettes: the keyword arguments, in order
    vignette_data,    \* generate_vignettes: the list of Vignette objects
    unrendered,       \* positions of vignette_data not yet rendered
    vignettes,        \* the mapping built: a set of <<identifier, text>>
    vpc,              \* position of the vignette generator
    rendered,         \* generate_vignette: what the call did (Pending before)
    surveys,          \* ids of the rows of table survey
    question_answers, \* rows of table question_answer (survey database)
    survey_call,      \* the last call of the survey service (None: none)
    survey_result,    \* what that call did
    study_answers,    \* rows of table question_answer (study database)
    study_call,       \* the last call of the study service (None: none)
    study_result,     \* what that call did
    study_submitted,  \* the users whose submit_study has returned
    singleton_instance, \* wrapped_class._singleton (None: not set)
    instances,        \* the instances of the wrapped class, by identity
    init_calls,       \* the arguments __init__ of the wrapped class ran with
    references,       \* what the constructor calls returned, in order
    procs,            \* concurrent get_employee_incentive calls: their locals
    create_calls      \* executions of create_employee_model_by_ids

vars == <<answer_type, answer, score_result, score_dict, selected_id, answers,
          employee_model, pc, idx, delivery_scores, incentive_scores,
          score_record, config, ret, exc, study_id, factor_levels,
          vignette_id, vignette, factors, vignette_template, preset_factors,
          vignette_data, unrendered, vignettes, vpc, rendered,
          surveys, question_answers, survey_call, survey_result,
          study_answers, study_call, study_result, study_submitted,
          singleton_instance,
          instances, init_calls, references, procs, create_calls>>

scoreVars == <<answer_type, answer, score_result>>
selectVars == <<score_dict, selected_id>>
mechanismVars == <<answers, employee_model, pc, idx, delivery_scores,
                   incentive_scores, score_record, config, ret, exc>>
idVars == <<factor_levels, vignette_id, vignette>>
generatorVars == <<factors, vignette_template, preset_factors, vignette_data,
                   unrendered, vignettes>>
vignetteVars == <<study_id, idVars, generatorVars, vpc>>
renderVars == <<rendered>>
surveyVars == <<surveys, question_answers, survey_call, survey_result>>
studyVars == <<study_answers, study_call, study_result, study_submitted>>
singletonVars == <<singleton_instance, instances, init_calls, references>>
raceVars == <<procs, create_calls>>
serviceVars == <<surveyVars, studyVars, singletonVars>>

(***************************************************************************)
(* Python's Optional: None is the empty tuple, a present value x is <<x>>. *)
(***************************************************************************)
None == << >>
Some(x) == <<x>>
IsNone(o) == o = None
Val(o) == o[1]

Min(a, b) == IF a <= b THEN a ELSE b
Max(a, b) == IF a >= b THEN a ELSE b
Abs(a) == IF a >= 0 THEN a ELSE -a

(***************************************************************************)
(* Bounds of the model.                                                    *)
(***************************************************************************)
MaxAnswerLen == 2   \* longest answer text given to calculate_score
MaxOptions == 2     \* most entries of a score map given to normalize_and_select
MaxAnswers == 2     \* most QuestionAnswer rows of the respondent

(***************************************************************************)
(* int(answer) for a str (incentive.py line 51). A string is a sequence of *)
(* one-character strings. Python strips surrounding whitespace, accepts    *)
(* one optional sign and then needs at least one digit and digits only;    *)
(* anything else raises ValueError.                                        *)
(***************************************************************************)
DigitChars == {"0", "1", "2", "3", "4", "5", "6", "7", "8", "9"}

DigitValue(c) ==
    CASE c = "0" -> 0 [] c = "1" -> 1 [] c = "2" -> 2 [] c = "3" -> 3
      [] c = "4" -> 4 [] c = "5" -> 5 [] c = "6" -> 6 [] c = "7" -> 7
      [] c = "8" -> 8 [] c = "9" -> 9

RECURSIVE StripLeft(_)
StripLeft(s) ==
    IF s # << >> /\ Head(s) = " " THEN StripLeft(Tail(s)) ELSE s

RECURSIVE StripRight(_)
StripRight(s) ==
    IF s # << >> /\ s[Len(s)] = " "
    THEN StripRight(SubSeq(s, 1, Len(s) - 1))
    ELSE s

Strip(s) == StripRight(StripLeft(s))

RECURSIVE DigitsValue(_)
DigitsValue(s) ==
    IF s = << >> THEN 0
    ELSE 10 * DigitsValue(SubSeq(s, 1, Len(s) - 1)) + DigitValue(s[Len(s)])

AllDigits(s) == s # << >> /\ \A k \in 1..Len(s) : s[k] \in DigitChars

\* int(s): Some(n), or None for ValueError.
ParseInt(s) ==
    LET t == Strip(s)
        signed == t # << >> /\ Head(t) \in {"+", "-"}
        body == IF signed THEN Tail(t) ELSE t
    IN  IF ~AllDigits(body) THEN None
        ELSE IF signed /\ Head(t) = "-" THEN Some(-DigitsValue(body))
        ELSE Some(DigitsValue(body))

(***************************************************************************)
(* calculate_score (incentive.py lines 32-62).                             *)
(***************************************************************************)
Return(v) == [tag |-> "return", value |-> v]
Raise(e) == [tag |-> "raise", value |-> e]
Pending == [tag |-> "pending", value |-> << >>]

AnswerType(neg, pos) == [most_negative |-> neg, most_positive |-> pos]

\* Faulty variant: the distance from most_negative is taken without abs().
calculate_score_NoAbs(atype, text) ==
    IF IsNone(atype.most_negative) \/ IsNone(atype.most_positive)
    THEN Raise("ValueError")
    ELSE LET neg == Val(atype.most_negative)
             pos == Val(atype.most_positive)
             min_score == Min(neg, pos)
             max_score == Max(neg, pos)
             trivial_answer == ParseInt(text)
         IN  IF ~IsNone(trivial_answer)
             THEN Return(<<(Val(trivial_answer) - neg) + min_score,
                           min_score, max_score>>)
             ELSE IF neg = 0 /\ pos = 0
                  THEN Return(<<0, 0, 0>>)
                  ELSE Raise("ValueError")

\* Faulty variant: every answer that is no integer is scored (0, 0, 0).
calculate_score_SwallowsError(atype, text) ==
    IF IsNone(atype.most_negative) \/ IsNone(atype.most_positive)
    THEN Raise("ValueError")
    ELSE LET neg == Val(atype.most_negative)
             pos == Val(atype.most_positive)
             min_score == Min(neg, pos)
             max_score == Max(neg, pos)
             trivial_answer == ParseInt(text)
         IN  IF ~IsNone(trivial_answer)
             THEN Return(<<Abs(Val(trivial_answer) - neg) + min_score,
                           min_score, max_score>>)
             ELSE Return(<<0, 0, 0>>)

\* Faulty variant: a missing bound is taken as 0 instead of raising.
calculate_score_DefaultBounds(atype, text) ==
    LET neg == IF IsNone(atype.most_negative) THEN 0 ELSE Val(atype.most_negative)
        pos == IF IsNone(atype.most_positive) THEN 0 ELSE Val(atype.most_positive)
        min_score == Min(neg, pos)
        max_score == Max(neg, pos)
        trivial_answer == ParseInt(text)
    IN  IF ~IsNone(trivial_answer)
        THEN Return(<<Abs(Val(trivial_answer) - neg) + min_score,
                      min_score, max_score>>)
        ELSE IF neg = 0 /\ pos = 0
             THEN Return(<<0, 0, 0>>)
             ELSE Raise("ValueError")

calculate_score(atype, text) ==
    IF IsNone(atype.most_negative) \/ IsNone(atype.most_positive)
    THEN Raise("ValueError")
    ELSE LET neg == Val(atype.most_negative)
             pos == Val(atype.most_positive)
             min_score == Min(neg, pos)
             max_score == Max(neg, pos)
             trivial_answer == ParseInt(text)
         IN  IF ~IsNone(trivial_answer)
             THEN Return(<<Abs(Val(trivial_answer) - neg) + min_score,
                           min_score, max_score>>)
             ELSE IF neg = 0 /\ pos = 0
                  THEN Return(<<0, 0, 0>>)
                  ELSE Raise("ValueError")

(***************************************************************************)
(* Score (incentive.py lines 17-23) and the ordered dicts of option id to  *)
(* Score. A dict is the sequence of its entries in insertion order, which  *)
(* is the order .items() iterates in.                                      *)
(***************************************************************************)
Score(ws, mn, mx) == [weighted_sum |-> ws, minimum |-> mn, maximum |-> mx]

Entry(k, sc) == [id |-> k, score |-> sc]

Keys(d) == {d[n].id : n \in 1..Len(d)}

HasKey(d, k) == k \in Keys(d)

Lookup(d, k) == d[CHOOSE n \in 1..Len(d) : d[n].id = k].score

\* defaultdict(Score).__getitem__: a missing key is inserted with Score().
GetItem(d, k) == IF HasKey(d, k) THEN d ELSE Append(d, Entry(k, Score(0, 0, 0)))

\* Faulty variant: = instead of +=.
AddTo_Assign(d, k, ws, mn, mx) ==
    [n \in 1..Len(d) |->
        IF d[n].id = k THEN Entry(k, Score(ws, mn, mx)) ELSE d[n]]

\* The three += of lines 113-115 on the Score stored under key k.
AddTo(d, k, ws, mn, mx) ==
    [n \in 1..Len(d) |->
        IF d[n].id = k
        THEN Entry(k, Score(d[n].score.weighted_sum + ws,
                            d[n].score.minimum + mn,
                            d[n].score.maximum + mx))
        ELSE d[n]]

(***************************************************************************)
(* normalize_and_select (incentive.py lines 65-83). The normalized score   *)
(* is a float quotient of two ints; it is kept as the exact fraction       *)
(* num/den with den > 0 and compared by cross-multiplication, which is the *)
(* float comparison as long as the quotients are exactly representable     *)
(* apart (true far beyond the model's ranges).                             *)
(***************************************************************************)
Normalized(sc) ==
    LET score_range == sc.maximum - sc.minimum
    IN  IF score_range > 0
        THEN [num |-> sc.weighted_sum - sc.minimum, den |-> score_range]
        ELSE [num |-> 0, den |-> 1]

FracGreater(a, b) == a.num * b.den > b.num * a.den

\* Faulty variant: >= instead of >, so that a later tied entry wins.
SelectStep_LastTie(selected, e) ==
    IF ~FracGreater(selected.normalized, Normalized(e.score))
    THEN [id |-> e.id, normalized |-> Normalized(e.score)]
    ELSE selected

SelectStep(selected, e) ==
    IF FracGreater(Normalized(e.score), selected.normalized)
    THEN [id |-> e.id, normalized |-> Normalized(e.score)]
    ELSE selected

RECURSIVE SelectLoop(_, _)
SelectLoop(selected, d) ==
    IF d = << >> THEN selected
    ELSE SelectLoop(SelectStep(selected, Head(d)), Tail(d))

normalize_and_select(d) ==
    SelectLoop([id |-> 0, normalized |-> [num |-> -1, den |-> 1]], d).id

(***************************************************************************)
(* The rows calculate_delivery_and_incentive reads (models.py): a          *)
(* QuestionAnswer with its answer text and its Question, which carries the *)
(* weight, the AnswerType and the Factor with its d_id and i_id.           *)
(***************************************************************************)
Factor(d, i) == [d_id |-> d, i_id |-> i]

Question(w, atype, f) == [weight |-> w, answer_type |-> atype, factor |-> f]

QuestionAnswer(text, q) == [answer |-> text, question |-> q]

(***************************************************************************)
(* calculate_delivery_and_incentive (incentive.py lines 86-128).           *)
(* The locals of the loop: the two dicts, the variable score_record (None  *)
(* while unbound, else the dict and key of the Score it refers to) and the *)
(* exception raised, if any.                                               *)
(***************************************************************************)
Locals(d, i, rec, e) ==
    [delivery_scores |-> d, incentive_scores |-> i, score_record |-> rec,
     exc |-> e]

Ref(m, k) == Some([map |-> m, id |-> k])

\* Lines 102 and 106-108: the row is skipped by continue.
Skipped(a) == IsNone(a.answer) \/ IsNone(a.question.weight)

\* Faulty variant: the bounds are added without the weight.
Accumulate_UnweightedBounds(st, question, r) ==
    LET f == question.factor
        weight == Val(question.weight)
        d1 == IF ~IsNone(f.d_id)
              THEN GetItem(st.delivery_scores, Val(f.d_id))
              ELSE st.delivery_scores
        rec1 == IF ~IsNone(f.d_id) THEN Ref("delivery", Val(f.d_id))
                ELSE st.score_record
        i1 == IF ~IsNone(f.i_id)
              THEN GetItem(st.incentive_scores, Val(f.i_id))
              ELSE st.incentive_scores
        rec2 == IF ~IsNone(f.i_id) THEN Ref("incentive", Val(f.i_id))
                ELSE rec1
    IN  IF IsNone(rec2)
        THEN Locals(d1, i1, rec2, Some("UnboundLocalError"))
        ELSE IF Val(rec2).map = "delivery"
        THEN Locals(AddTo(d1, Val(rec2).id, weight * r[1], r[2], r[3]),
                    i1, rec2, None)
        ELSE Locals(d1,
                    AddTo(i1, Val(rec2).id, weight * r[1], r[2], r[3]),
                    rec2, None)

\* Lines 109-115, after calculate_score returned <<score, min_value, max_value>>.
Accumulate(st, question, r) ==
    LET f == question.factor
        weight == Val(question.weight)
        d1 == IF ~IsNone(f.d_id)
              THEN GetItem(st.delivery_scores, Val(f.d_id))
              ELSE st.delivery_scores
        rec1 == IF ~IsNone(f.d_id) THEN Ref("delivery", Val(f.d_id))
                ELSE st.score_record
        i1 == IF ~IsNone(f.i_id)
              THEN GetItem(st.incentive_scores, Val(f.i_id))
              ELSE st.incentive_scores
        rec2 == IF ~IsNone(f.i_id) THEN Ref("incentive", Val(f.i_id))
                ELSE rec1
    IN  IF IsNone(rec2)
        THEN Locals(d1, i1, rec2, Some("UnboundLocalError"))
        ELSE IF Val(rec2).map = "delivery"
        THEN Locals(AddTo(d1, Val(rec2).id, weight * r[1], weight * r[2],
                          weight * r[3]),
                    i1, rec2, None)
        ELSE Locals(d1,
                    AddTo(i1, Val(rec2).id, weight * r[1], weight * r[2],
                          weight * r[3]),
                    rec2, None)

\* One iteration of the for loop (lines 100-115) on the row a.
\* Faulty variant: no guard for a missing answer or weight, int(None) raises.
LoopBody_NoGuard(st, a) ==
    IF Skipped(a) THEN [st EXCEPT !.exc = Some("TypeError")]
    ELSE LET r == calculate_score(a.question.answer_type, Val(a.answer))
         IN  IF r.tag = "raise"
             THEN [st EXCEPT !.exc = Some(r.value)]
             ELSE Accumulate(st, a.question, r.value)

LoopBody(st, a) ==
    IF Skipped(a) THEN st
    ELSE LET r == calculate_score(a.question.answer_type, Val(a.answer))
         IN  IF r.tag = "raise"
             THEN [st EXCEPT !.exc = Some(r.value)]
             ELSE Accumulate(st, a.question, r.value)

\* Faulty variant: a configuration is returned as soon as one of the two
\* dicts has an entry.
SelectConfig_OneSided(d, i) ==
    IF Len(d) = 0 /\ Len(i) = 0 THEN None
    ELSE Some([delivery_model |-> normalize_and_select(d),
               incentive_type |-> normalize_and_select(i)])

\* Lines 117-128: None, or the dict of the two selected ids.
SelectConfig(d, i) ==
    IF Len(d) = 0 \/ Len(i) = 0 THEN None
    ELSE Some([delivery_model |-> normalize_and_select(d),
               incentive_type |-> normalize_and_select(i)])

RECURSIVE RunLoop(_, _)
RunLoop(st, rows) ==
    IF rows = << >> \/ ~IsNone(st.exc) THEN st
    ELSE RunLoop(LoopBody(st, Head(rows)), Tail(rows))

\* The whole call: Raise(exception) or Return(config).
calculate_delivery_and_incentive(rows) ==
    LET st == RunLoop(Locals(<< >>, << >>, None, None), rows)
    IN  IF ~IsNone(st.exc) THEN Raise(Val(st.exc))
        ELSE Return(SelectConfig(st.delivery_scores, st.incentive_scores))

(***************************************************************************)
(* Strings and ordered dicts of the vignette generator. A str is a         *)
(* sequence of one-character strings; a dict is the sequence of its items  *)
(* in insertion order, with distinct keys.                                 *)
(***************************************************************************)
\* ord(c) of the characters factor names are written with.
CodePoint(c) ==
    CASE c = "A" -> 65 [] c = "B" -> 66 [] c = "C" -> 67 [] c = "_" -> 95
      [] c = "a" -> 97 [] c = "b" -> 98

\* s < t for two str.
RECURSIVE StrLess(_, _)
StrLess(s, t) ==
    IF t = << >> THEN FALSE
    ELSE IF s = << >> THEN TRUE
    ELSE IF Head(s) # Head(t) THEN CodePoint(Head(s)) < CodePoint(Head(t))
    ELSE StrLess(Tail(s), Tail(t))

Item(k, v) == [key |-> k, value |-> v]

DictKeys(d) == {d[j].key : j \in 1..Len(d)}

DictItems(d) == {d[j] : j \in 1..Len(d)}

\* d1 == d2 for two dicts: the same items, in any order.
DictEq(d1, d2) == DictItems(d1) = DictItems(d2)

\* d[k] for a key the dict holds.
DictGet(d, k) == d[CHOOSE j \in 1..Len(d) : d[j].key = k].value

\* sorted(d.items()): the items by ascending key.
RECURSIVE InsertSorted(_, _)
InsertSorted(it, sorted) ==
    IF sorted = << >> THEN <<it>>
    ELSE IF StrLess(it.key, Head(sorted).key) THEN <<it>> \o sorted
    ELSE <<Head(sorted)>> \o InsertSorted(it, Tail(sorted))

RECURSIVE SortedItems(_)
SortedItems(d) ==
    IF d = << >> THEN << >>
    ELSE InsertSorted(d[Len(d)], SortedItems(SubSeq(d, 1, Len(d) - 1)))

(***************************************************************************)
(* json.dumps of the values generate_vignette_id serializes: an int, a     *)
(* str, None and a dict with str keys (separators ", " and ": ").          *)
(***************************************************************************)
Quote == "\""
Backslash == "\\"

DigitChar(n) == <<"0", "1", "2", "3", "4", "5", "6", "7", "8", "9">>[n + 1]

RECURSIVE EncodeDigits(_)
EncodeDigits(n) ==
    IF n < 10 THEN <<DigitChar(n)>>
    ELSE EncodeDigits(n \div 10) \o <<DigitChar(n % 10)>>

EncodeInt(n) == IF n < 0 THEN <<"-">> \o EncodeDigits(-n) ELSE EncodeDigits(n)

RECURSIVE Escape(_)
Escape(s) ==
    IF s = << >> THEN << >>
    ELSE (IF Head(s) \in {Quote, Backslash} THEN <<Backslash, Head(s)>>
          ELSE <<Head(s)>>) \o Escape(Tail(s))

EncodeString(s) == <<Quote>> \o Escape(s) \o <<Quote>>

NullText == <<"n", "u", "l", "l">>

\* A level: None or a str.
EncodeLevel(level) ==
    IF IsNone(level) THEN NullText ELSE EncodeString(Val(level))

\* The members of an object whose values are already encoded.
RECURSIVE EncodeMembers(_)
EncodeMembers(items) ==
    IF items = << >> THEN << >>
    ELSE EncodeString(Head(items).key) \o <<":", " ">> \o Head(items).value
         \o (IF Len(items) > 1 THEN <<",", " ">> ELSE << >>)
         \o EncodeMembers(Tail(items))

EncodeObject(items) == <<"{">> \o EncodeMembers(items) \o <<"}">>

EncodeLevels(d) ==
    EncodeObject([j \in 1..Len(d) |-> Item(d[j].key, EncodeLevel(d[j].value))])

StudyIdKey == <<"s", "t", "u", "d", "y", "_", "i", "d">>
FactorLevelsKey ==
    <<"f", "a", "c", "t", "o", "r", "_", "l", "e", "v", "e", "l", "s">>

(***************************************************************************)
(* json.loads: a decoded value is [type, value] with type "int", "str",    *)
(* "null" or "object" (the dict of its members). A decoder returns         *)
(* [ok, value, next]: whether it succeeded, the value and the position     *)
(* after it.                                                               *)
(***************************************************************************)
Decoded(v, p) == [ok |-> TRUE, value |-> v, next |-> p]
DecodeError == [ok |-> FALSE, value |-> << >>, next |-> 0]

Json(t, v) == [type |-> t, value |-> v]

At(s, p) == IF p \in 1..Len(s) THEN s[p] ELSE "EOF"

RECURSIVE SkipSpaces(_, _)
SkipSpaces(s, p) == IF At(s, p) = " " THEN SkipSpaces(s, p + 1) ELSE p

\* The characters of a string up to its closing quote; p is after the
\* opening quote.
RECURSIVE ScanString(_, _, _)
ScanString(s, p, acc) ==
    IF At(s, p) = "EOF" THEN DecodeError
    ELSE IF At(s, p) = Quote THEN Decoded(Json("str", acc), p + 1)
    ELSE IF At(s, p) = Backslash
    THEN IF At(s, p + 1) \in {Quote, Backslash}
         THEN ScanString(s, p + 2, Append(acc, s[p + 1]))
         ELSE DecodeError
    ELSE ScanString(s, p + 1, Append(acc, s[p]))

RECURSIVE ScanDigits(_, _, _)
ScanDigits(s, p, n) ==
    IF At(s, p) \in DigitChars
    THEN ScanDigits(s, p + 1, 10 * n + DigitValue(s[p]))
    ELSE Decoded(Json("int", n), p)

DecodeInt(s, p) ==
    IF At(s, p) = "-"
    THEN IF At(s, p + 1) \in DigitChars
         THEN LET r == ScanDigits(s, p + 1, 0)
              IN  Decoded(Json("int", -r.value.value), r.next)
         ELSE DecodeError
    ELSE ScanDigits(s, p, 0)

RECURSIVE DecodeValue(_, _)
RECURSIVE DecodeMembers(_, _, _)

\* The members of an object; p is at a key.
DecodeMembers(s, p, acc) ==
    IF At(s, p) # Quote THEN DecodeError
    ELSE LET k == ScanString(s, p + 1, << >>)
         IN  IF ~k.ok THEN DecodeError
             ELSE LET colon == SkipSpaces(s, k.next)
                  IN  IF At(s, colon) # ":" THEN DecodeError
                      ELSE LET v == DecodeValue(s, SkipSpaces(s, colon + 1))
                           IN  IF ~v.ok THEN DecodeError
                               ELSE LET q == SkipSpaces(s, v.next)
                                        items == Append(acc, Item(k.value.value,
                                                                  v.value))
                                    IN  IF At(s, q) = ","
                                        THEN DecodeMembers(s,
                                                 SkipSpaces(s, q + 1), items)
                                        ELSE IF At(s, q) = "}"
                                        THEN Decoded(Json("object", items), q + 1)
                                        ELSE DecodeError

DecodeValue(s, p) ==
    IF At(s, p) = Quote THEN ScanString(s, p + 1, << >>)
    ELSE IF At(s, p) \in DigitChars \cup {"-"} THEN DecodeInt(s, p)
    ELSE IF At(s, p) = "n"
    THEN IF p + 3 <= Len(s) /\ SubSeq(s, p, p + 3) = NullText
         THEN Decoded(Json("null", << >>), p + 4)
         ELSE DecodeError
    ELSE IF At(s, p) = "{"
    THEN LET q == SkipSpaces(s, p + 1)
         IN  IF At(s, q) = "}" THEN Decoded(Json("object", << >>), q + 1)
             ELSE DecodeMembers(s, q, << >>)
    ELSE DecodeError

\* json.loads(s): Some(value), or None for JSONDecodeError.
JsonLoads(s) ==
    LET r == DecodeValue(s, SkipSpaces(s, 1))
    IN  IF r.ok /\ SkipSpaces(s, r.next) = Len(s) + 1 THEN Some(r.value)
        ELSE None

(***************************************************************************)
(* Vignette, generate_vignette_id and parse_vignette_id                    *)
(* (vignette_generator.py lines 17-67).                                    *)
(***************************************************************************)
Vignette(sid, id, levels) ==
    [study_id |-> sid, vignette_id |-> id, factor_levels |-> levels]

\* Faulty variant: the keyword arguments are serialized in the order given.
generate_vignette_id_Unsorted(sid, levels) ==
    EncodeObject(<<Item(StudyIdKey, EncodeInt(sid)),
                   Item(FactorLevelsKey, EncodeLevels(levels))>>)

\* Faulty variant: an absent level is serialized as the str "null".
generate_vignette_id_NullAsStr(sid, levels) ==
    LET text(level) == IF IsNone(level) THEN Some(NullText) ELSE level
        sorted == SortedItems(levels)
    IN  EncodeObject(<<Item(StudyIdKey, EncodeInt(sid)),
                       Item(FactorLevelsKey,
                            EncodeLevels([j \in 1..Len(sorted) |->
                                Item(sorted[j].key, text(sorted[j].value))]))>>)

\* Faulty variant: the factor levels are left out of the identifier.
generate_vignette_id_StudyOnly(sid, levels) ==
    EncodeObject(<<Item(StudyIdKey, EncodeInt(sid)),
                   Item(FactorLevelsKey, EncodeLevels(<< >>))>>)

\* Lines 50-54.
generate_vignette_id(sid, levels) ==
    EncodeObject(<<Item(StudyIdKey, EncodeInt(sid)),
                   Item(FactorLevelsKey, EncodeLevels(SortedItems(levels)))>>)

\* A decoded level as the Optional[str] of Vignette.factor_levels.
LevelOf(v) == IF v.type = "null" THEN None ELSE Some(v.value)

\* Lines 64-67: Return(Vignette), or Raise for a string that is no JSON
\* text or whose keys are not the fields of Vignette.
parse_vignette_id(id) ==
    LET loaded == JsonLoads(id)
    IN  IF IsNone(loaded) THEN Raise("JSONDecodeError")
        ELSE LET json_dict == Val(loaded)
             IN  IF json_dict.type # "object"
                    \/ DictKeys(json_dict.value) # {StudyIdKey, FactorLevelsKey}
                 THEN Raise("TypeError")
                 ELSE LET sid == DictGet(json_dict.value, StudyIdKey)
                          levels == DictGet(json_dict.value, FactorLevelsKey)
                      IN  Return(Vignette(
                              sid.value, id,
                              [j \in 1..Len(levels.value) |->
                                  Item(levels.value[j].key,
                                       LevelOf(levels.value[j].value))]))

(***************************************************************************)
(* generate_vignette (vignette_generator.py lines 70-107). The factor      *)
(* table is the dict get_factors returns: factor -> (level -> text). A     *)
(* template is given as string.Template reads it: a sequence of literal    *)
(* texts and named placeholders.                                           *)
(***************************************************************************)
Literal(s) == [placeholder |-> FALSE, text |-> s]
Placeholder(name) == [placeholder |-> TRUE, text |-> name]

NoneText == <<"N", "o", "n", "e">>

\* Faulty variant: only the value None is taken as the absence marker.
check_empty_key_NoneOnly(table, factor, key) ==
    IF IsNone(key) THEN Return(<< >>)
    ELSE IF factor \notin DictKeys(table)
            \/ Val(key) \notin DictKeys(DictGet(table, factor))
    THEN Raise("KeyError")
    ELSE Return(DictGet(DictGet(table, factor), Val(key)))

\* Lines 86-89: Return(text), or Raise for a factor or level the table
\* does not hold.
check_empty_key(table, factor, key) ==
    IF IsNone(key) \/ Val(key) = NoneText THEN Return(<< >>)
    ELSE IF factor \notin DictKeys(table)
            \/ Val(key) \notin DictKeys(DictGet(table, factor))
    THEN Raise("KeyError")
    ELSE Return(DictGet(DictGet(table, factor), Val(key)))

\* Line 101: Template(...).substitute(**variables).
RECURSIVE Substitute(_, _)
Substitute(template, variables) ==
    IF template = << >> THEN Return(<< >>)
    ELSE LET token == Head(template)
             rest == Substitute(Tail(template), variables)
         IN  IF token.placeholder /\ token.text \notin DictKeys(variables)
             THEN Raise("KeyError")
             ELSE IF rest.tag = "raise" THEN rest
             ELSE Return((IF token.placeholder
                          THEN DictGet(variables, token.text)
                          ELSE token.text) \o rest.value)

Whitespace == {" ", "\t", "\n"}

\* Faulty variant: only space characters are trimmed.
RECURSIVE StripWhitespace_SpacesOnly(_)
StripWhitespace_SpacesOnly(s) ==
    IF s = << >> THEN s
    ELSE IF Head(s) = " " THEN StripWhitespace_SpacesOnly(Tail(s))
    ELSE IF s[Len(s)] = " "
    THEN StripWhitespace_SpacesOnly(SubSeq(s, 1, Len(s) - 1))
    ELSE s

\* Line 104: str.strip().
RECURSIVE StripWhitespace(_)
StripWhitespace(s) ==
    IF s = << >> THEN s
    ELSE IF Head(s) \in Whitespace THEN StripWhitespace(Tail(s))
    ELSE IF s[Len(s)] \in Whitespace
    THEN StripWhitespace(SubSeq(s, 1, Len(s) - 1))
    ELSE s

\* Line 107: re.sub(" +", " ", text).
RECURSIVE CollapseSpaces(_)
CollapseSpaces(s) ==
    IF Len(s) < 2 THEN s
    ELSE IF s[1] = " " /\ s[2] = " " THEN CollapseSpaces(Tail(s))
    ELSE <<s[1]>> \o CollapseSpaces(Tail(s))

\* Return(text) or Raise(exception). template is what
\* get_vignette_template_by_id returned for the vignette's study.
generate_vignette(v, table, template) ==
    LET levels == v.factor_levels
        fragments == [j \in 1..Len(levels) |->
                         check_empty_key(table, levels[j].key, levels[j].value)]
    IN  IF \E j \in 1..Len(levels) : fragments[j].tag = "raise"
        THEN Raise("KeyError")
        ELSE IF IsNone(template) \/ Val(template) = << >> THEN Return(<< >>)
        ELSE LET variables == [j \in 1..Len(levels) |->
                                  Item(levels[j].key, fragments[j].value)]
                 vignette_text == Substitute(Val(template), variables)
             IN  IF vignette_text.tag = "raise" THEN vignette_text
                 ELSE Return(CollapseSpaces(StripWhitespace(
                                 vignette_text.value)))

(***************************************************************************)
(* generate_vignettes (vignette_generator.py lines 110-171).               *)
(***************************************************************************)
\* Lines 121-125: for every factor not preset, the list of its
\* (factor, level) pairs.
RECURSIVE remaining_factor_levels(_, _)
remaining_factor_levels(table, presets) ==
    IF table = << >> THEN << >>
    ELSE LET factor == Head(table).key
             levels == Head(table).value
             rest == remaining_factor_levels(Tail(table), presets)
         IN  IF factor \in DictKeys(presets) THEN rest
             ELSE <<[j \in 1..Len(levels) |->
                        Item(factor, Some(levels[j].key))]>> \o rest

\* x prepended to every sequence of the list.
RECURSIVE PrependTo(_, _)
PrependTo(x, combos) ==
    IF combos = << >> THEN << >>
    ELSE <<(<<x>> \o Head(combos))>> \o PrependTo(x, Tail(combos))

\* Lines 126-128: itertools.product(*lists), as the list of its tuples.
RECURSIVE Product(_)
RECURSIVE ProductOver(_, _)
ProductOver(choices, combos) ==
    IF choices = << >> THEN << >>
    ELSE PrependTo(Head(choices), combos) \o ProductOver(Tail(choices), combos)

Product(lists) ==
    IF lists = << >> THEN << << >> >>
    ELSE ProductOver(Head(lists), Product(Tail(lists)))

\* Lines 142-150.
add_vignette_object(sid, levels) ==
    Vignette(sid, generate_vignette_id(sid, levels), levels)

\* Line 156.
preset_factors_empty(presets) ==
    [j \in 1..Len(presets) |-> Item(presets[j].key, None)]

\* Faulty variant: the preset factors count as valued only if all of them
\* hold a value.
exists_preset_value_All(presets) ==
    presets # << >> /\ \A j \in 1..Len(presets) : ~IsNone(presets[j].value)

\* Lines 131-134.
exists_preset_value(presets) ==
    \E j \in 1..Len(presets) : ~IsNone(presets[j].value)

\* Faulty variant: no vignette with the preset factors empty is added.
VignettesOf_NoBaseline(sid, variables, presets) ==
    <<add_vignette_object(sid, variables \o presets)>>

\* Faulty variant: a preset factor that is None is left out of the
\* vignette instead of being kept as None.
VignettesOf_DropsNone(sid, variables, presets) ==
    LET Given(it) == ~IsNone(it.value)
    IN  (IF exists_preset_value(presets)
         THEN <<add_vignette_object(sid, variables)>>
         ELSE << >>)
        \o <<add_vignette_object(sid, variables \o SelectSeq(presets, Given))>>

\* Lines 140-164: the vignettes one combination adds to vignette_data.
VignettesOf(sid, variables, presets) ==
    (IF exists_preset_value(presets)
     THEN <<add_vignette_object(sid,
                variables \o preset_factors_empty(presets))>>
     ELSE << >>)
    \o <<add_vignette_object(sid, variables \o presets)>>

\* Lines 136-164: vignette_data after the loop.
RECURSIVE CollectVignettes(_, _, _)
CollectVignettes(sid, combos, presets) ==
    IF combos = << >> THEN << >>
    ELSE VignettesOf(sid, Head(combos), presets)
         \o CollectVignettes(sid, Tail(combos), presets)

\* m[id] = text for the mapping m, a set of <<identifier, text>>.
MapPut(m, id, text) == {e \in m : e[1] # id} \cup {<<id, text>>}

\* Lines 168-171 on the list in the order given: Return(mapping) or
\* Raise(exception).
RECURSIVE RenderAll(_, _, _, _)
RenderAll(data, table, template, m) ==
    IF data = << >> THEN Return(m)
    ELSE LET r == generate_vignette(Head(data), table, template)
         IN  IF r.tag = "raise" THEN r
             ELSE RenderAll(Tail(data), table, template,
                            MapPut(m, Head(data).vignette_id, r.value))

(***************************************************************************)
(* The inputs the specifications draw from.                                *)
(***************************************************************************)
\* The sequences over S of length at most n.
SeqsUpTo(S, n) == UNION {[1..m -> S] : m \in 0..n}

\* Characters of an answer text: blank, signs, digits and a letter.
AnswerChars == {" ", "+", "-", "1", "2", "5", "x"}

\* most_negative and most_positive: missing, or an endpoint of a scale.
BoundValues == {None} \cup {Some(v) : v \in {-1, 0, 1, 3, 5, 7}}

AnswerTypes == {AnswerType(neg, pos) : neg \in BoundValues, pos \in BoundValues}

\* Score maps: at most MaxOptions entries with distinct ids and small totals.
OptionIds == 1..MaxOptions

ScoreValues == 0..2

Scores == {Score(ws, mn, mx) : ws \in ScoreValues, mn \in ScoreValues,
                                mx \in ScoreValues}

\* The orders of insertion of n distinct ids.
IdOrders(n) ==
    {f \in [1..n -> OptionIds] : \A p, q \in 1..n : p # q => f[p] # f[q]}

\* The question table: scales 1..3 forward and reverse, the free-text type,
\* a type with a missing bound; factors of delivery models 1, 2 and incentive
\* types 1, 2, a factor with neither id and one with both; weights present,
\* missing and negative.
Likert == AnswerType(Some(1), Some(3))
LikertReverse == AnswerType(Some(3), Some(1))
FreeText == AnswerType(Some(0), Some(0))
BrokenType == AnswerType(None, Some(3))

Questions ==
    { Question(Some(1), Likert, Factor(Some(1), None)),
      Question(Some(2), LikertReverse, Factor(Some(2), None)),
      Question(Some(1), LikertReverse, Factor(None, Some(1))),
      Question(Some(2), Likert, Factor(None, Some(2))),
      Question(Some(1), FreeText, Factor(Some(1), None)),
      Question(None, Likert, Factor(None, Some(1))),
      Question(Some(1), Likert, Factor(None, None)),
      Question(Some(1), BrokenType, Factor(Some(2), None)),
      Question(Some(-1), Likert, Factor(None, Some(2))),
      Question(Some(1), Likert, Factor(Some(2), Some(1))) }

\* Answer texts of a row: missing, not a number, and numbers.
RowTexts == {None, Some(<<"x">>), Some(<<"1">>), Some(<<"3">>)}

Rows == {QuestionAnswer(t, q) : t \in RowTexts, q \in Questions}

\* The respondent's EmployeeModel row before the call: none, or one stored.
EmployeeModel(d, i) == [d_id |-> d, i_id |-> i]

StoredModels == {None, Some(EmployeeModel(2, 1))}

(***************************************************************************)
(* SpecScore: one call of calculate_score.                                 *)
(***************************************************************************)
IdleScore == answer_type = AnswerType(None, None) /\ answer = << >>
             /\ score_result = Pending

IdleSelect == score_dict = << >> /\ selected_id = None

IdleMechanism ==
    /\ answers = << >> /\ employee_model = None /\ pc = "idle" /\ idx = 0
    /\ delivery_scores = << >> /\ incentive_scores = << >>
    /\ score_record = None /\ config = None /\ ret = None /\ exc = None

IdleRender == rendered = [tag |-> "pending", value |-> << >>]

IdleSurvey ==
    /\ surveys = {} /\ question_answers = {} /\ survey_call = << >>
    /\ survey_result = [tag |-> "pending", value |-> << >>]

IdleStudy ==
    /\ study_answers = {} /\ study_call = << >>
    /\ study_result = [tag |-> "pending", value |-> << >>]
    /\ study_submitted = {}

IdleSingleton ==
    /\ singleton_instance = << >> /\ instances = << >>
    /\ init_calls = << >> /\ references = << >>

IdleRace == procs = << >> /\ create_calls = 0

IdleServices == IdleSurvey /\ IdleStudy /\ IdleSingleton

IdleVignette ==
    /\ study_id = 0 /\ factor_levels = << >> /\ vignette_id = None
    /\ vignette = Pending /\ factors = << >> /\ vignette_template = None
    /\ preset_factors = << >> /\ vignette_data = << >> /\ unrendered = {}
    /\ vignettes = {} /\ vpc = "idle"

InitScore ==
    /\ answer_type \in AnswerTypes
    /\ answer \in SeqsUpTo(AnswerChars, MaxAnswerLen)
    /\ score_result = Pending
    /\ IdleSelect /\ IdleMechanism /\ IdleVignette
    /\ IdleRender /\ IdleServices /\ IdleRace

CallCalculateScore ==
    /\ score_result = Pending
    /\ score_result' = calculate_score(answer_type, answer)
    /\ UNCHANGED <<answer_type, answer, selectVars, mechanismVars, vignetteVars, renderVars, serviceVars,
                   raceVars>>

SpecScore == InitScore /\ [][CallCalculateScore]_vars

(***************************************************************************)
(* SpecSelect: one call of normalize_and_select.                           *)
(***************************************************************************)
InitSelect ==
    /\ \E n \in 0..MaxOptions :
         \E ids \in IdOrders(n), scores \in [1..n -> Scores] :
            score_dict = [j \in 1..n |-> Entry(ids[j], scores[j])]
    /\ selected_id = None
    /\ IdleScore /\ IdleMechanism /\ IdleVignette
    /\ IdleRender /\ IdleServices /\ IdleRace

CallNormalizeAndSelect ==
    /\ selected_id = None
    /\ selected_id' = Some(normalize_and_select(score_dict))
    /\ UNCHANGED <<score_dict, scoreVars, mechanismVars, vignetteVars, renderVars, serviceVars,
                   raceVars>>

SpecSelect == InitSelect /\ [][CallNormalizeAndSelect]_vars

(***************************************************************************)
(* Spec: get_employee_incentive (incentive.py lines 131-161) for one       *)
(* respondent, with calculate_delivery_and_incentive run one loop          *)
(* iteration at a time.                                                    *)
(***************************************************************************)
Init ==
    /\ answers \in SeqsUpTo(Rows, MaxAnswers)
    /\ employee_model \in StoredModels
    /\ pc = "lookup" /\ idx = 0
    /\ delivery_scores = << >> /\ incentive_scores = << >>
    /\ score_record = None /\ config = None /\ ret = None /\ exc = None
    /\ IdleScore /\ IdleSelect /\ IdleVignette
    /\ IdleRender /\ IdleServices /\ IdleRace

\* Faulty variant: the stored model is not looked up and the configuration
\* is calculated again.
ReturnStored_Recalculate ==
    /\ pc = "lookup" /\ ~IsNone(employee_model) /\ Len(answers) > 0
    /\ delivery_scores' = << >> /\ incentive_scores' = << >>
    /\ score_record' = None
    /\ idx' = 1
    /\ pc' = "loop"
    /\ UNCHANGED <<answers, employee_model, config, ret, exc, scoreVars,
                   selectVars, vignetteVars, renderVars, serviceVars,
                   raceVars>>

\* Lines 142-145: the stored model is returned.
ReturnStored ==
    /\ pc = "lookup" /\ ~IsNone(employee_model)
    /\ ret' = employee_model
    /\ pc' = "done"
    /\ UNCHANGED <<answers, employee_model, idx, delivery_scores,
                   incentive_scores, score_record, config, exc, scoreVars,
                   selectVars, vignetteVars, renderVars, serviceVars,
                   raceVars>>

\* Lines 147-150: no answered question.
NotSurveyed ==
    /\ pc = "lookup" /\ IsNone(employee_model) /\ Len(answers) = 0
    /\ ret' = None
    /\ pc' = "done"
    /\ UNCHANGED <<answers, employee_model, idx, delivery_scores,
                   incentive_scores, score_record, config, exc, scoreVars,
                   selectVars, vignetteVars, renderVars, serviceVars,
                   raceVars>>

\* Lines 152-153 and 97-98: the call of calculate_delivery_and_incentive.
StartCalculation ==
    /\ pc = "lookup" /\ IsNone(employee_model) /\ Len(answers) > 0
    /\ delivery_scores' = << >> /\ incentive_scores' = << >>
    /\ score_record' = None
    /\ idx' = 1
    /\ pc' = "loop"
    /\ UNCHANGED <<answers, employee_model, config, ret, exc, scoreVars,
                   selectVars, vignetteVars, renderVars, serviceVars,
                   raceVars>>

\* Lines 100-115: one iteration; an exception leaves both calls.
Iterate ==
    /\ pc = "loop" /\ idx <= Len(answers)
    /\ LET st == LoopBody(Locals(delivery_scores, incentive_scores,
                                 score_record, None), answers[idx])
       IN  /\ delivery_scores' = st.delivery_scores
           /\ incentive_scores' = st.incentive_scores
           /\ score_record' = st.score_record
           /\ exc' = st.exc
           /\ pc' = IF IsNone(st.exc) THEN "loop" ELSE "raised"
           /\ idx' = IF IsNone(st.exc) THEN idx + 1 ELSE idx
    /\ UNCHANGED <<answers, employee_model, config, ret, scoreVars, selectVars, vignetteVars, renderVars, serviceVars,
                   raceVars>>

\* Lines 117-128: the loop is over, the configuration is selected.
Select ==
    /\ pc = "loop" /\ idx > Len(answers)
    /\ config' = SelectConfig(delivery_scores, incentive_scores)
    /\ pc' = "calculated"
    /\ UNCHANGED <<answers, employee_model, idx, delivery_scores,
                   incentive_scores, score_record, ret, exc, scoreVars,
                   selectVars, vignetteVars, renderVars, serviceVars,
                   raceVars>>

\* Faulty variant: the two ids are passed to create_employee_model_by_ids
\* in each other's place.
Create_Swapped ==
    /\ pc = "calculated"
    /\ employee_model' =
         IF IsNone(config) THEN employee_model
         ELSE Some(EmployeeModel(Val(config).incentive_type,
                                 Val(config).delivery_model))
    /\ ret' = employee_model'
    /\ pc' = "done"
    /\ UNCHANGED <<answers, idx, delivery_scores, incentive_scores,
                   score_record, config, exc, scoreVars, selectVars, vignetteVars, renderVars, serviceVars,
                   raceVars>>

\* Lines 153-161: a configuration is stored as the EmployeeModel and returned.
Create ==
    /\ pc = "calculated"
    /\ employee_model' =
         IF IsNone(config) THEN employee_model
         ELSE Some(EmployeeModel(Val(config).delivery_model,
                                 Val(config).incentive_type))
    /\ ret' = employee_model'
    /\ pc' = "done"
    /\ UNCHANGED <<answers, idx, delivery_scores, incentive_scores,
                   score_record, config, exc, scoreVars, selectVars, vignetteVars, renderVars, serviceVars,
                   raceVars>>

Next ==
    \/ ReturnStored
    \/ NotSurveyed
    \/ StartCalculation
    \/ Iterate
    \/ Select
    \/ Create

Spec == Init /\ [][Next]_vars

(***************************************************************************)
(* Claims about calculate_score, under SpecScore.                          *)
(***************************************************************************)
Called == score_result # Pending

BoundsDefined ==
    ~IsNone(answer_type.most_negative) /\ ~IsNone(answer_type.most_positive)

neg == Val(answer_type.most_negative)
pos == Val(answer_type.most_positive)
IsInteger == ~IsNone(ParseInt(answer))
a == Val(ParseInt(answer))
InRange == Min(neg, pos) <= a /\ a <= Max(neg, pos)

\* C1: for every integer answer a and every answer type (neg, pos) with
\* neg # pos, calculate_score returns (s, min(neg,pos), max(neg,pos)) with
\* min(neg,pos) <= s <= max(neg,pos).
C1_ScoreWithinRange ==
    (Called /\ BoundsDefined /\ IsInteger /\ neg # pos) =>
        /\ score_result.tag = "return"
        /\ score_result.value[2] = Min(neg, pos)
        /\ score_result.value[3] = Max(neg, pos)
        /\ Min(neg, pos) <= score_result.value[1]
        /\ score_result.value[1] <= Max(neg, pos)

\* C2: for an integer answer a within [min(neg,pos), max(neg,pos)],
\* calculate_score returns a on a forward scale (neg < pos) and min+max-a on
\* a reverse scale (neg > pos), with min and max as second and third
\* component.
C2_ForwardAndReverse ==
    (Called /\ BoundsDefined /\ IsInteger /\ InRange) =>
        /\ neg < pos => score_result = Return(<<a, neg, pos>>)
        /\ neg > pos => score_result = Return(<<pos + neg - a, pos, neg>>)

\* likert-5 reverse answered "2" has been scored (4, 1, 5).
C2_Witness ==
    /\ answer_type = AnswerType(Some(5), Some(1))
    /\ answer = <<"2">>
    /\ score_result = Return(<<4, 1, 5>>)

\* C3: for an answer that is no integer, calculate_score returns (0, 0, 0)
\* when most_negative = 0 and most_positive = 0, and raises otherwise.
C3_NonIntegerAnswer ==
    (Called /\ ~IsInteger) =>
        IF answer_type = AnswerType(Some(0), Some(0))
        THEN score_result = Return(<<0, 0, 0>>)
        ELSE score_result.tag = "raise"

\* A text that is no integer has raised on a scale with both bounds defined.
C3_Witness ==
    /\ Called /\ ~IsInteger /\ BoundsDefined
    /\ answer_type # AnswerType(Some(0), Some(0))
    /\ score_result = Raise("ValueError")

(***************************************************************************)
(* Claims about normalize_and_select, under SpecSelect.                    *)
(***************************************************************************)
Selected == ~IsNone(selected_id)

WellFormed(sc) == sc.minimum <= sc.weighted_sum /\ sc.weighted_sum <= sc.maximum

\* The normalized value of the claim as the fraction numerator/denominator.
Numerator(sc) ==
    IF sc.maximum <= sc.minimum THEN 0 ELSE sc.weighted_sum - sc.minimum

Denominator(sc) ==
    IF sc.maximum <= sc.minimum THEN 1 ELSE sc.maximum - sc.minimum

\* value(x) < value(y) and value(x) <= value(y), denominators being positive.
Below(x, y) == Numerator(x) * Denominator(y) < Numerator(y) * Denominator(x)
AtMost(x, y) == Numerator(x) * Denominator(y) <= Numerator(y) * Denominator(x)

\* C5: for a non-empty score map whose Scores satisfy
\* minimum <= weighted_sum <= maximum, normalize_and_select returns the id of
\* an entry of largest normalized value, and of the first such entry in
\* iteration order.
C5_SelectsFirstLargest ==
    (Selected /\ score_dict # << >>
        /\ \A n \in 1..Len(score_dict) : WellFormed(score_dict[n].score)) =>
        \E n \in 1..Len(score_dict) :
            /\ score_dict[n].id = Val(selected_id)
            /\ \A m \in 1..Len(score_dict) :
                 AtMost(score_dict[m].score, score_dict[n].score)
            /\ \A m \in 1..(n - 1) :
                 Below(score_dict[m].score, score_dict[n].score)

\* Two entries tie at the largest value and the first of them was returned;
\* in another map the second entry, of larger value, was returned.
C5_Witness ==
    /\ Selected /\ Len(score_dict) = 2
    /\ \A n \in 1..2 : WellFormed(score_dict[n].score)
    /\ Numerator(score_dict[1].score) > 0
    /\ AtMost(score_dict[1].score, score_dict[2].score)
    /\ AtMost(score_dict[2].score, score_dict[1].score)
    /\ Val(selected_id) = score_dict[1].id

\* C6: normalize_and_select returns 0 for the empty map and a key of the map
\* for every non-empty map.
C6_ReturnsKeyOrSentinel ==
    Selected =>
        IF score_dict = << >> THEN Val(selected_id) = 0
        ELSE Val(selected_id) \in Keys(score_dict)

(***************************************************************************)
(* Claims about calculate_delivery_and_incentive, under Spec.              *)
(***************************************************************************)
Row(j) == answers[j]

\* The rows the loop has been through.
Processed == SubSeq(answers, 1, idx - 1)

Looping == pc = "loop" /\ idx <= Len(answers)

Target(row, group) ==
    IF group = "delivery" THEN row.question.factor.d_id
    ELSE row.question.factor.i_id

ExactlyOne(row) ==
    IsNone(row.question.factor.d_id) # IsNone(row.question.factor.i_id)

Neither(row) ==
    IsNone(row.question.factor.d_id) /\ IsNone(row.question.factor.i_id)

BrokenRow(row) ==
    /\ ~Skipped(row)
    /\ \/ IsNone(row.question.answer_type.most_negative)
       \/ IsNone(row.question.answer_type.most_positive)

Parses(row) ==
    ~Skipped(row)
    /\ calculate_score(row.question.answer_type, Val(row.answer)).tag = "return"

\* C4: an answer type with a missing bound makes calculate_score raise for
\* every answer; the exception leaves calculate_delivery_and_incentive, so
\* no configuration is returned and no EmployeeModel is stored.
C4_BrokenTypeAborts ==
    [][\A j \in 1..Len(answers) :
          BrokenRow(Row(j)) =>
            /\ idx' <= j
            /\ pc' # "calculated"
            /\ IsNone(config')
            /\ employee_model' = employee_model
            /\ (Looping /\ idx = j) =>
                  (pc' = "raised" /\ exc' = Some("ValueError") /\ IsNone(ret'))]_vars

\* The second row has the broken answer type and the call has raised on it.
C4_Witness ==
    /\ pc = "raised" /\ idx = 2 /\ BrokenRow(Row(2))
    /\ exc = Some("ValueError")
    /\ delivery_scores # << >>
    /\ delivery_scores[1].score.maximum > 0
    /\ IsNone(employee_model) /\ IsNone(config)

\* The sum of weight * (component c of the score) over the rows routed to
\* option k of the group.
RECURSIVE Total(_, _, _, _)
Total(rows, group, k, c) ==
    IF rows = << >> THEN 0
    ELSE LET row == Head(rows)
             r == calculate_score(row.question.answer_type, Val(row.answer))
         IN  (IF Target(row, group) = Some(k)
              THEN Val(row.question.weight) * r.value[c] ELSE 0)
             + Total(Tail(rows), group, k, c)

Routed(rows, group) ==
    {Val(Target(rows[j], group)) :
        j \in {n \in 1..Len(rows) : ~IsNone(Target(rows[n], group))}}

TotalsMatch(d, rows, group) ==
    /\ Keys(d) = Routed(rows, group)
    /\ Len(d) = Cardinality(Keys(d))
    /\ \A k \in Keys(d) :
         Lookup(d, k) = Score(Total(rows, group, k, 1),
                              Total(rows, group, k, 2),
                              Total(rows, group, k, 3))

\* C7: when every row has its answer and weight, parses per its answer type
\* and has a factor with exactly one of d_id / i_id, then after the rows are
\* processed each map holds, per option id, the sums of weight*score,
\* weight*min_score and weight*max_score over exactly the rows routed to
\* that id, and no other key.
C7_WeightedTotals ==
    (pc \in {"loop", "calculated"}
        /\ \A j \in 1..Len(Processed) : Parses(Row(j)) /\ ExactlyOne(Row(j))) =>
        /\ TotalsMatch(delivery_scores, Processed, "delivery")
        /\ TotalsMatch(incentive_scores, Processed, "incentive")

\* Two rows of the same delivery model were summed into one Score.
C7_Witness ==
    /\ pc = "calculated" /\ Len(answers) = 2
    /\ \A j \in 1..2 : Parses(Row(j)) /\ ExactlyOne(Row(j))
    /\ Len(delivery_scores) = 1 /\ incentive_scores = << >>
    /\ Target(Row(1), "delivery") = Target(Row(2), "delivery")
    /\ \A j \in 1..2 : Row(j).question.answer_type \in {Likert, LikertReverse}
    /\ delivery_scores[1].score.weighted_sum > delivery_scores[1].score.minimum
    /\ delivery_scores[1].score.weighted_sum < delivery_scores[1].score.maximum

\* C8: processing a row whose factor has neither d_id nor i_id changes no
\* Score of the delivery map and none of the incentive map.
C8_NeitherFactorExcluded ==
    [][(Looping /\ ~Skipped(Row(idx)) /\ Neither(Row(idx))) =>
          (delivery_scores' = delivery_scores
           /\ incentive_scores' = incentive_scores)]_vars

\* A row contributes a score to a group: it is not skipped, its factor
\* routes it to the group and its answer is an integer on a defined scale
\* (a free-text answer scored (0, 0, 0) does not contribute).
Contributes(row, group) ==
    /\ ~Skipped(row) /\ ~BrokenRow(row)
    /\ ~IsNone(Target(row, group))
    /\ ~IsNone(ParseInt(Val(row.answer)))

\* C9: if no row contributes a score to the delivery group, or none to the
\* incentive group, calculate_delivery_and_incentive returns None. Stated
\* for the rows the Factor table admits (exactly one of d_id / i_id).
C9_NoContributionNoConfig ==
    (pc = "calculated"
        /\ (\A j \in 1..Len(answers) : ExactlyOne(Row(j)))
        /\ \E group \in {"delivery", "incentive"} :
              \A j \in 1..Len(answers) : ~Contributes(Row(j), group)) =>
        IsNone(config)

NotSkipped(row) == ~Skipped(row)

\* C10: a row whose answer or weight is missing is skipped: the loop's
\* locals after any prefix, the returned configuration and the exception
\* raised are those of the list without the skipped rows.
C10_SkippedRowsIgnored ==
    /\ pc = "loop" =>
         Locals(delivery_scores, incentive_scores, score_record, None)
           = RunLoop(Locals(<< >>, << >>, None, None),
                     SelectSeq(Processed, NotSkipped))
    /\ pc = "calculated" =>
         Return(config)
           = calculate_delivery_and_incentive(SelectSeq(answers, NotSkipped))
    /\ pc = "raised" =>
         Raise(Val(exc))
           = calculate_delivery_and_incentive(SelectSeq(answers, NotSkipped))

\* A scored row, then a skipped row: the loop went on with the maps as the
\* first row left them.
C10_Witness ==
    /\ pc = "loop" /\ idx = 3
    /\ ~Skipped(Row(1)) /\ Skipped(Row(2))
    /\ delivery_scores # << >>
    /\ delivery_scores[1].score.maximum > 0

(***************************************************************************)
(* Claims about free-text answers, under Spec.                             *)
(***************************************************************************)
IsFreeText(row) == row.question.answer_type = FreeText

Scored(row) == ~IsFreeText(row)

\* What the call of calculate_delivery_and_incentive came to.
Outcome == IF pc = "raised" THEN Raise(Val(exc)) ELSE Return(config)

SameOutcome(x, y) == x.tag = y.tag /\ x.value = y.value

\* C11: answers whose answer type is the free-text marker (0, 0) are
\* excluded from scoring: calculate_delivery_and_incentive comes to the same
\* result on the answer list as on the list without those answers, whatever
\* their text. Stated for the rows the Factor table admits (exactly one of
\* d_id / i_id).
C11_FreeTextExcluded ==
    (pc \in {"calculated", "raised"}
        /\ \A j \in 1..Len(answers) : ExactlyOne(Row(j))) =>
        SameOutcome(Outcome,
                    calculate_delivery_and_incentive(SelectSeq(answers, Scored)))

(***************************************************************************)
(* SpecCalls: a respondent without a stored model, for whom                *)
(* get_employee_incentive is called again and again while answers are      *)
(* submitted between the calls.                                            *)
(***************************************************************************)
InitCalls == Init /\ answers = << >> /\ IsNone(employee_model)

BetweenCalls == pc \in {"done", "raised"}

\* The answers submitted: an integer text to a weighted question of a
\* factor with exactly one of d_id / i_id.
SubmittedRows ==
    {row \in Rows :
        /\ ExactlyOne(row)
        /\ row.question.weight \in {Some(1), Some(2)}
        /\ row.question.answer_type # FreeText
        /\ row.answer \in {Some(<<"1">>), Some(<<"3">>)}}

\* create_question_answer_by_q_id (crud.py lines 221-245): one more answered
\* question of the respondent.
SubmitAnswer ==
    /\ BetweenCalls /\ Len(answers) <= MaxAnswers
    /\ \E row \in SubmittedRows : answers' = Append(answers, row)
    /\ UNCHANGED <<employee_model, pc, idx, delivery_scores, incentive_scores,
                   score_record, config, ret, exc, scoreVars, selectVars, vignetteVars, renderVars, serviceVars,
                   raceVars>>

\* The next call of get_employee_incentive, with fresh locals.
CallAgain ==
    /\ BetweenCalls
    /\ pc' = "lookup" /\ idx' = 0
    /\ delivery_scores' = << >> /\ incentive_scores' = << >>
    /\ score_record' = None /\ config' = None /\ ret' = None /\ exc' = None
    /\ UNCHANGED <<answers, employee_model, scoreVars, selectVars, vignetteVars, renderVars, serviceVars,
                   raceVars>>

NextCalls ==
    \/ Next
    \/ SubmitAnswer
    \/ CallAgain

SpecCalls == InitCalls /\ [][NextCalls]_vars

\* C12: a call that finds an EmployeeModel stored returns that model and
\* neither runs the calculation nor creates anything; a stored model is
\* never replaced, so every later call returns the same configuration
\* whatever answers are submitted afterwards.
C12_StoredModelReturned ==
    [][/\ (pc = "lookup" /\ ~IsNone(employee_model)) =>
              (pc' = "done" /\ ret' = employee_model
               /\ UNCHANGED <<employee_model, idx, delivery_scores,
                              incentive_scores, score_record, config>>)
       /\ ~IsNone(employee_model) => employee_model' = employee_model]_vars

\* A later call returned the model an earlier call created, although the
\* answers submitted since then would give another configuration.
C12_Witness ==
    /\ pc = "done" /\ idx = 0 /\ ~IsNone(ret) /\ ret = employee_model
    /\ LET now == calculate_delivery_and_incentive(answers)
       IN  /\ now.tag = "return" /\ ~IsNone(now.value)
           /\ Val(ret) # EmployeeModel(Val(now.value).delivery_model,
                                       Val(now.value).incentive_type)

(***************************************************************************)
(* Claims about what get_employee_incentive creates, under Spec.           *)
(***************************************************************************)
NothingStored == IsNone(employee_model)

BothGroups == delivery_scores # << >> /\ incentive_scores # << >>

C14_CreatesSelectedModel ==
    (pc = "done" /\ idx > 0 /\ BothGroups) =>
        /\ employee_model =
             Some(EmployeeModel(normalize_and_select(delivery_scores),
                                normalize_and_select(incentive_scores)))
        /\ ret = employee_model

\* Two scored answers, one for each group: the model created holds the key
\* of each map.
C14_Witness ==
    /\ pc = "done" /\ idx > 0 /\ BothGroups
    /\ \A j \in 1..Len(answers) :
          ExactlyOne(Row(j)) /\ Row(j).question.answer_type = Likert
    /\ ~IsNone(ret)
    /\ Val(ret).d_id \in Keys(delivery_scores)
    /\ Val(ret).i_id \in Keys(incentive_scores)
    /\ Val(ret).d_id # Val(ret).i_id

(***************************************************************************)
(* SpecVignetteId: one call of generate_vignette_id, then one call of      *)
(* parse_vignette_id on the string it returned.                            *)
(***************************************************************************)
MaxFactors == 2     \* most factors of a call or of the factor table

\* The sequences of n distinct elements of S.
DistinctSeqs(S, n) ==
    {q \in [1..n -> S] : \A i, j \in 1..n : i # j => q[i] # q[j]}

StudyIds == {-5, 1, 12}

FactorNames == {<<"A">>, <<"B">>, <<"A", "B">>, <<"a">>}

\* Levels: absent, level keys, the empty str, the str "null", strings with
\* a quote and with a backslash.
LevelValues ==
    {None, Some(<<"1">>), Some(<<"2">>), Some(<< >>), Some(NullText),
     Some(<<Quote>>), Some(<<Backslash, "n">>)}

InitVignetteId ==
    /\ study_id \in StudyIds
    /\ \E n \in 0..MaxFactors :
         \E names \in DistinctSeqs(FactorNames, n),
            levels \in [1..n -> LevelValues] :
            factor_levels = [j \in 1..n |-> Item(names[j], levels[j])]
    /\ vignette_id = None /\ vignette = Pending
    /\ factors = << >> /\ vignette_template = None
    /\ preset_factors = << >> /\ vignette_data = << >> /\ unrendered = {}
    /\ vignettes = {}
    /\ vpc = "generate"
    /\ IdleScore /\ IdleSelect /\ IdleMechanism
    /\ IdleRender /\ IdleServices /\ IdleRace

GenerateVignetteId ==
    /\ vpc = "generate"
    /\ vignette_id' = Some(generate_vignette_id(study_id, factor_levels))
    /\ vpc' = "parse"
    /\ UNCHANGED <<study_id, factor_levels, vignette, generatorVars,
                   scoreVars, selectVars, mechanismVars, renderVars, serviceVars,
                   raceVars>>

ParseVignetteId ==
    /\ vpc = "parse"
    /\ vignette' = parse_vignette_id(Val(vignette_id))
    /\ vpc' = "done"
    /\ UNCHANGED <<study_id, factor_levels, vignette_id, generatorVars,
                   scoreVars, selectVars, mechanismVars, renderVars, serviceVars,
                   raceVars>>

NextVignetteId ==
    \/ GenerateVignetteId
    \/ ParseVignetteId

SpecVignetteId == InitVignetteId /\ [][NextVignetteId]_vars

\* The orderings of the items of the dict d.
Orderings(d) == {q \in [1..Len(d) -> DictItems(d)] : DictEq(q, d)}

\* C15: generate_vignette_id is independent of the order of its keyword
\* arguments: every ordering of the same factor-to-level assignment gives
\* the identifier the call returned.
C15_IdIgnoresArgumentOrder ==
    vpc # "generate" =>
        \A q \in Orderings(factor_levels) :
            generate_vignette_id(study_id, q) = Val(vignette_id)

\* An identifier generated from arguments that were not given in key order.
C15_Witness ==
    /\ vpc = "parse"
    /\ Len(factor_levels) = 2
    /\ StrLess(factor_levels[2].key, factor_levels[1].key)
    /\ factor_levels[1].value # factor_levels[2].value

\* C16: parse_vignette_id of the generated identifier returns a Vignette
\* with the study id and the factor levels given (levels may be None) and
\* the identifier itself as vignette_id, and generate_vignette_id of the
\* parsed study id and factor levels gives the identifier again.
C16_IdRoundTrip ==
    vpc = "done" =>
        /\ vignette.tag = "return"
        /\ vignette.value.study_id = study_id
        /\ DictEq(vignette.value.factor_levels, factor_levels)
        /\ vignette.value.vignette_id = Val(vignette_id)
        /\ generate_vignette_id(vignette.value.study_id,
                                vignette.value.factor_levels)
             = Val(vignette_id)

\* A parsed identifier of an absent level and of the str "null".
C16_Witness ==
    /\ vpc = "done" /\ vignette.tag = "return"
    /\ Len(factor_levels) = 2
    /\ IsNone(factor_levels[2].value)
    /\ factor_levels[1].value = Some(NullText)
    /\ factor_levels # vignette.value.factor_levels

(***************************************************************************)
(* SpecVignettes: one call of generate_vignettes for study 1 (the default  *)
(* of line 110). random.shuffle (line 166) leaves vignette_data in any     *)
(* order and the comprehension of lines 168-171 renders it in that order:  *)
(* each step renders any vignette not rendered yet. The order of the       *)
(* entries of the mapping is not kept.                                     *)
(***************************************************************************)
\* The factors of the table, in the order of their first row.
TableOrder == <<(<<"B">>), (<<"A">>), (<<"C">>)>>

\* The level keys of a factor, in the order of their rows.
LevelKeyLists == {<<(<<"2">>)>>, <<(<<"2">>), (<<"1">>)>>}

LevelText(factor, level) ==
    IF level = <<"1">> THEN factor \o <<" ", " ">> \o level
    ELSE <<" ">> \o factor \o level

FactorTable(levels) ==
    [j \in 1..Len(levels) |->
        Item(TableOrder[j],
             [i \in 1..Len(levels[j]) |->
                 Item(levels[j][i], LevelText(TableOrder[j], levels[j][i]))])]

\* Preset factors: two of the table and one the table does not hold.
PresetNames == {<<"A">>, <<"B">>, <<"a">>}

PresetValues == {None, Some(<<"1">>), Some(<<"2">>)}

Templates ==
    {None,
     Some(<<Placeholder(<<"B">>)>>),
     Some(<<Literal(<<" ">>), Placeholder(<<"B">>), Literal(<<" ", " ">>),
            Placeholder(<<"A">>), Literal(<<"\t">>)>>)}

InitVignettes ==
    /\ study_id = 1
    /\ \E k \in 0..MaxFactors :
         \E levels \in [1..k -> LevelKeyLists] : factors = FactorTable(levels)
    /\ vignette_template \in Templates
    /\ \E n \in 0..MaxFactors :
         \E names \in DistinctSeqs(PresetNames, n),
            values \in [1..n -> PresetValues] :
            preset_factors = [j \in 1..n |-> Item(names[j], values[j])]
    /\ vignette_data = << >> /\ unrendered = {} /\ vignettes = {}
    /\ factor_levels = << >> /\ vignette_id = None /\ vignette = Pending
    /\ vpc = "enumerate"
    /\ IdleScore /\ IdleSelect /\ IdleMechanism
    /\ IdleRender /\ IdleServices /\ IdleRace

\* Lines 118-164.
Enumerate ==
    /\ vpc = "enumerate"
    /\ vignette_data' =
         CollectVignettes(study_id,
                          Product(remaining_factor_levels(factors,
                                                          preset_factors)),
                          preset_factors)
    /\ unrendered' = 1..Len(vignette_data')
    /\ vpc' = "render"
    /\ UNCHANGED <<study_id, idVars, factors, vignette_template,
                   preset_factors, vignettes, scoreVars, selectVars,
                   mechanismVars, renderVars, serviceVars,
                   raceVars>>

\* Lines 166-171: the next vignette of the shuffled list is rendered.
RenderNext ==
    /\ vpc = "render"
    /\ \E j \in unrendered :
         LET r == generate_vignette(vignette_data[j], factors,
                                    vignette_template)
         IN  IF r.tag = "raise"
             THEN vpc' = "raised" /\ UNCHANGED <<unrendered, vignettes>>
             ELSE /\ vignettes' = MapPut(vignettes,
                                         vignette_data[j].vignette_id, r.value)
                  /\ unrendered' = unrendered \ {j}
                  /\ vpc' = vpc
    /\ UNCHANGED <<study_id, idVars, factors, vignette_template,
                   preset_factors, vignette_data, scoreVars, selectVars,
                   mechanismVars, renderVars, serviceVars,
                   raceVars>>

\* Lines 168-171: the mapping is returned.
ReturnVignettes ==
    /\ vpc = "render" /\ unrendered = {}
    /\ vpc' = "returned"
    /\ UNCHANGED <<study_id, idVars, generatorVars, scoreVars, selectVars,
                   mechanismVars, renderVars, serviceVars,
                   raceVars>>

NextVignettes ==
    \/ Enumerate
    \/ RenderNext
    \/ ReturnVignettes

SpecVignettes == InitVignettes /\ [][NextVignettes]_vars

(***************************************************************************)
(* Claims about generate_vignettes, under SpecVignettes.                   *)
(***************************************************************************)
Returned == vpc = "returned"

PresetKeys == DictKeys(preset_factors)

\* The positions of the preset factors that hold a value.
ValuedPresets ==
    {j \in 1..Len(preset_factors) : ~IsNone(preset_factors[j].value)}

\* The product of the level counts of the factors that are not preset.
RECURSIVE LevelProduct(_)
LevelProduct(table) ==
    IF table = << >> THEN 1
    ELSE (IF Head(table).key \in PresetKeys THEN 1 ELSE Len(Head(table).value))
         * LevelProduct(Tail(table))

\* The factors varied and the complete assignments of levels to them.
Varied == DictKeys(factors) \ PresetKeys

LevelKeysOf(factor) == DictKeys(DictGet(factors, factor))

Assignments ==
    {asg \in [Varied -> UNION {LevelKeysOf(f) : f \in Varied}] :
        \A f \in Varied : asg[f] \in LevelKeysOf(f)}

ItemsOf(asg) == {Item(f, Some(asg[f])) : f \in Varied}

PresetsAsGiven == DictItems(preset_factors)

PresetsAbsent == {Item(k, None) : k \in PresetKeys}

\* The factor levels of the identifiers returned, each as a set of items.
ReturnedLevels ==
    {DictItems(parse_vignette_id(e[1]).value.factor_levels) : e \in vignettes}

\* C17: the number of entries of the mapping returned by generate_vignettes
\* is the product of the level counts of the factors not preset, doubled
\* for each preset factor that holds a value.
C17_CountDoubledPerPreset ==
    Returned =>
        Cardinality(vignettes)
          = LevelProduct(factors) * 2 ^ Cardinality(ValuedPresets)

\* C17, amended: the number of entries is the product of the level counts
\* of the factors not preset, doubled once if at least one preset factor
\* holds a value.
C17_CountDoubledOnce ==
    Returned =>
        Cardinality(vignettes)
          = LevelProduct(factors) * (IF ValuedPresets # {} THEN 2 ELSE 1)

\* Two preset factors hold a value: the entry with both values and the
\* entry with both factors None, and no more.
C17_Witness ==
    /\ Returned
    /\ Cardinality(ValuedPresets) = 2
    /\ Cardinality(vignettes) = 2 * LevelProduct(factors)

\* C18: with a value for at least one preset factor, the entries returned
\* are, for every complete assignment of levels to the factors not preset,
\* exactly two: one with the preset factors as given and one with all
\* preset factors None; there are no other entries.
C18_PairPerAssignment ==
    (Returned /\ ValuedPresets # {}) =>
        /\ ReturnedLevels =
             UNION {{ItemsOf(asg) \cup PresetsAsGiven,
                     ItemsOf(asg) \cup PresetsAbsent} : asg \in Assignments}
        /\ Cardinality(vignettes) = 2 * Cardinality(Assignments)

\* One preset factor holds a value, another is None, and a factor is
\* varied over two levels.
C18_Witness ==
    /\ Returned
    /\ Cardinality(ValuedPresets) = 1 /\ Len(preset_factors) = 2
    /\ Cardinality(Assignments) = 2
    /\ Cardinality(vignettes) = 4

\* C19: with every preset factor None, or no preset factor, the entries
\* returned are exactly one per complete assignment of levels to the
\* factors not preset; every preset factor is None in every identifier and
\* is never varied over its levels.
C19_OnePerAssignment ==
    (Returned /\ ValuedPresets = {}) =>
        /\ ReturnedLevels =
             {ItemsOf(asg) \cup PresetsAbsent : asg \in Assignments}
        /\ Cardinality(vignettes) = Cardinality(Assignments)

\* A factor of the table with two levels is preset to None and another
\* factor is varied over two levels.
C19_Witness ==
    /\ Returned
    /\ ValuedPresets = {} /\ Len(preset_factors) > 0
    /\ \E f \in PresetKeys \cap DictKeys(factors) :
          Cardinality(LevelKeysOf(f)) = 2
    /\ Cardinality(vignettes) = 2

\* The mapping generate_vignettes returns when the shuffle leaves
\* vignette_data as it was built.
Unshuffled ==
    RenderAll(CollectVignettes(study_id,
                               Product(remaining_factor_levels(
                                           factors, preset_factors)),
                               preset_factors),
              factors, vignette_template, {})

\* C20: as a set of (identifier, text) pairs, the mapping returned is the
\* same for every outcome of the shuffle: it is the mapping of the
\* unshuffled list.
C20_ShuffleChangesOrderOnly ==
    Returned => (Unshuffled.tag = "return" /\ vignettes = Unshuffled.value)

\* Four vignettes with four different texts were rendered.
C20_Witness ==
    /\ Returned
    /\ Cardinality(vignettes) = 4
    /\ Cardinality({e[2] : e \in vignettes}) = 4


(***************************************************************************)
(* SpecRender: one call of generate_vignette. The vignette names factors   *)
(* A and B and possibly C; the table holds level 1 of A and of B and       *)
(* nothing of C.                                                           *)
(***************************************************************************)
RenderLevelsA == {None, Some(NoneText), Some(<<"1">>), Some(<<"9">>)}

RenderLevelsB == {None, Some(<<"1">>)}

RenderLevelsC == {None, Some(NoneText), Some(<<"1">>)}

TextsA ==
    {<< >>, <<"x">>, <<" ">>, <<" ", " ">>, <<"\t", "x">>,
     <<"x", " ", " ", "x">>}

TextsB == {<< >>, <<"y">>, <<" ", "y", " ">>}

RenderTable(tA, tB) ==
    <<Item(<<"A">>, <<Item(<<"1">>, tA)>>),
      Item(<<"B">>, <<Item(<<"1">>, tB)>>)>>

RenderTemplates ==
    {None,
     Some(<< >>),
     Some(<<Placeholder(<<"A">>), Placeholder(<<"B">>)>>),
     Some(<<Literal(<<" ">>), Placeholder(<<"A">>), Literal(<<" ", " ">>),
            Placeholder(<<"B">>), Literal(<<"\t">>)>>),
     Some(<<Literal(<<"x">>), Placeholder(<<"A">>), Literal(<<" ">>),
            Placeholder(<<"C">>), Literal(<<" ">>), Placeholder(<<"B">>),
            Literal(<<"x">>)>>)}

InitRender ==
    /\ study_id = 1
    /\ \E la \in RenderLevelsA, lb \in RenderLevelsB :
         \/ factor_levels = <<Item(<<"A">>, la), Item(<<"B">>, lb)>>
         \/ \E lc \in RenderLevelsC :
              factor_levels =
                  <<Item(<<"A">>, la), Item(<<"B">>, lb), Item(<<"C">>, lc)>>
    /\ vignette_id = Some(generate_vignette_id(study_id, factor_levels))
    /\ vignette = Return(Vignette(study_id, Val(vignette_id), factor_levels))
    /\ \E tA \in TextsA, tB \in TextsB : factors = RenderTable(tA, tB)
    /\ vignette_template \in RenderTemplates
    /\ preset_factors = << >> /\ vignette_data = << >>
    /\ unrendered = {} /\ vignettes = {} /\ vpc = "idle"
    /\ rendered = Pending
    /\ IdleScore /\ IdleSelect /\ IdleMechanism
    /\ IdleServices /\ IdleRace

\* Lines 70-107.
GenerateVignette ==
    /\ rendered = Pending
    /\ vignette.tag = "return"
    /\ rendered' = generate_vignette(vignette.value, factors,
                                     vignette_template)
    /\ UNCHANGED <<scoreVars, selectVars, mechanismVars, vignetteVars,
                   serviceVars, raceVars>>

NextRender == GenerateVignette

SpecRender == InitRender /\ [][NextRender]_vars

IsAbsent(key) == IsNone(key) \/ Val(key) = NoneText

\* The factors of the vignette whose level is not the absence marker.
PresentFactors ==
    {j \in 1..Len(factor_levels) : ~IsAbsent(factor_levels[j].value)}

InTable(j) ==
    /\ factor_levels[j].key \in DictKeys(factors)
    /\ Val(factor_levels[j].value)
           \in DictKeys(DictGet(factors, factor_levels[j].key))

\* The text a factor of the vignette stands for.
FragmentOf(name) ==
    LET key == DictGet(factor_levels, name)
    IN  IF IsAbsent(key) THEN << >>
        ELSE DictGet(DictGet(factors, name), Val(key))

RECURSIVE Filled(_)
Filled(template) ==
    IF template = << >> THEN << >>
    ELSE (IF Head(template).placeholder
          THEN FragmentOf(Head(template).text)
          ELSE Head(template).text) \o Filled(Tail(template))

PlaceholdersOf(template) ==
    {template[j].text : j \in {i \in 1..Len(template) :
                                   template[i].placeholder}}

Templated == ~IsNone(vignette_template) /\ Val(vignette_template) # << >>

\* C21: when every factor whose level is not the absence marker is in the
\* table and the template names only factors of the vignette,
\* generate_vignette returns the template with the empty string for every
\* factor whose level is None or 'None' (in the table or not) and the
\* table's text for every other factor, trimmed and collapsed.
C21_AbsentIsEmptyOthersLookedUp ==
    (/\ rendered # Pending
     /\ Templated
     /\ \A j \in PresentFactors : InTable(j)
     /\ PlaceholdersOf(Val(vignette_template)) \subseteq
            DictKeys(factor_levels))
    => rendered = Return(CollapseSpaces(StripWhitespace(
                             Filled(Val(vignette_template)))))

C21_Witness ==
    /\ rendered.tag = "return"
    /\ Templated
    /\ Len(factor_levels) = 3
    /\ factor_levels[3].value = Some(NoneText)
    /\ factor_levels[1].value = Some(<<"1">>)
    /\ <<"C">> \in PlaceholdersOf(Val(vignette_template))
    /\ rendered.value = <<"x", "x", " ", "x">>

\* C22: without a template, generate_vignette returns the empty string and
\* raises nothing, whatever the vignette and the table are.
C22_NoTemplateReturnsEmpty ==
    (rendered # Pending /\ IsNone(vignette_template))
    => rendered = Return(<< >>)

\* C23: the returned text neither starts nor ends with whitespace and holds
\* no two consecutive spaces.
C23_TrimmedAndCollapsed ==
    rendered.tag = "return" =>
        LET text == rendered.value
        IN  /\ text # << >> =>
                (text[1] \notin Whitespace /\ text[Len(text)] \notin Whitespace)
            /\ \A j \in 1..(Len(text) - 1) :
                   ~(text[j] = " " /\ text[j + 1] = " ")

C23_Witness ==
    /\ rendered.tag = "return"
    /\ Templated
    /\ \E j \in 1..Len(factor_levels) : IsAbsent(factor_levels[j].value)
    /\ LET filled == Filled(Val(vignette_template))
       IN  /\ filled # << >>
           /\ filled[Len(filled)] = "\t"
           /\ \E j \in 1..(Len(filled) - 2) :
                  filled[j] = " " /\ filled[j + 1] = " " /\ filled[j + 2] = " "
    /\ \E j \in 1..Len(rendered.value) : rendered.value[j] = " "


(***************************************************************************)
(* SpecSurvey: the survey service (survey_logic.py) over the tables        *)
(* survey, question and question_answer. The engine is SQLite, created     *)
(* without enabling foreign keys (database.py lines 12-14), so a           *)
(* question_answer row may name a question that table question does not    *)
(* hold; the primary key (s_id, q_id, revolori_id) is enforced.            *)
(***************************************************************************)
AnswerBuildPlan(q, ans) == [question_id |-> q, answer |-> ans]

QuestionAnswerRow(s, q, u, ans) ==
    [s_id |-> s, q_id |-> q, revolori_id |-> u, answer |-> ans]

\* The rows of table question, and survey.questions.
QuestionTable == {1}

SurveyQuestions(s) == IF s = 1 THEN <<1>> ELSE << >>

\* crud.py lines 68-85: Survey JOIN QuestionAnswer JOIN Question, filtered
\* by the user.
get_answered_surveys_by_revolori_id(table, rows, u) ==
    {s \in table : \E r \in rows : /\ r.s_id = s
                                   /\ r.q_id \in QuestionTable
                                   /\ r.revolori_id = u}

\* Faulty variant: the survey is not looked up.
guard_survey_access_NoSurveyCheck(table, rows, s, u) ==
    IF s \in get_answered_surveys_by_revolori_id(table, rows, u)
    THEN Raise("SurveyAlreadyAnswered")
    ELSE Return(SurveyQuestions(s))

\* survey_logic.py lines 50-68: Return(survey.questions) or Raise.
guard_survey_access(table, rows, s, u) ==
    IF s \notin table THEN Raise("InvalidSurveyId")
    ELSE IF s \in get_answered_surveys_by_revolori_id(table, rows, u)
    THEN Raise("SurveyAlreadyAnswered")
    ELSE Return(SurveyQuestions(s))

HasRow(rows, s, q, u) ==
    \E r \in rows : r.s_id = s /\ r.q_id = q /\ r.revolori_id = u

\* survey_logic.py lines 107-114 with crud.py lines 216-218 and 242-245:
\* one INSERT and one commit per answer; the INSERT of a key the table
\* holds raises and ends the loop.
RECURSIVE StoreAnswers(_, _, _, _)
StoreAnswers(rows, s, u, plans) ==
    IF plans = << >> THEN [rows |-> rows, result |-> Return(<< >>)]
    ELSE LET plan == Head(plans)
         IN  IF HasRow(rows, s, plan.question_id, u)
             THEN [rows |-> rows, result |-> Raise("IntegrityError")]
             ELSE StoreAnswers(
                      rows \cup {QuestionAnswerRow(s, plan.question_id, u,
                                                   plan.answer)},
                      s, u, Tail(plans))

SurveyCall(op, s, u, plans) ==
    [op |-> op, survey_id |-> s, revolori_id |-> u, answers |-> plans]

\* Survey 1 exists, survey 3 does not; question 1 exists, question 9 does
\* not.
SurveyIds == {1, 3}

Users == {"u", "v"}

Plans == {AnswerBuildPlan(q, ans) : q \in {1, 9}, ans \in {<<"1">>, <<"3">>}}

PlanLists ==
    {<< >>} \cup {<<p>> : p \in Plans} \cup {<<p, q>> : p \in Plans, q \in Plans}

InitSurvey ==
    /\ surveys = {1}
    /\ question_answers = {}
    /\ survey_call = None
    /\ survey_result = Pending
    /\ IdleScore /\ IdleSelect /\ IdleMechanism /\ IdleVignette
    /\ IdleRender /\ IdleStudy /\ IdleSingleton /\ IdleRace

\* survey_logic.py lines 70-87.
StartSurvey ==
    /\ \E s \in SurveyIds, u \in Users :
         /\ survey_call' = Some(SurveyCall("start_survey", s, u, << >>))
         /\ survey_result' = guard_survey_access(surveys, question_answers,
                                                 s, u)
    /\ UNCHANGED <<surveys, question_answers>>
    /\ UNCHANGED <<scoreVars, selectVars, mechanismVars, vignetteVars,
                   renderVars, studyVars, singletonVars, raceVars>>

\* survey_logic.py lines 89-114.
SubmitSurvey ==
    /\ \E s \in SurveyIds, u \in Users, plans \in PlanLists :
         LET guard == guard_survey_access(surveys, question_answers, s, u)
             stored == StoreAnswers(question_answers, s, u, plans)
         IN  /\ survey_call' = Some(SurveyCall("submit_survey", s, u, plans))
             /\ IF guard.tag = "raise"
                THEN /\ survey_result' = guard
                     /\ UNCHANGED question_answers
                ELSE /\ survey_result' = stored.result
                     /\ question_answers' = stored.rows
    /\ UNCHANGED surveys
    /\ UNCHANGED <<scoreVars, selectVars, mechanismVars, vignetteVars,
                   renderVars, studyVars, singletonVars, raceVars>>

NextSurvey == StartSurvey \/ SubmitSurvey

SpecSurvey == InitSurvey /\ [][NextSurvey]_vars

\* The call a step makes, and the rows the caller had before it.
ThisCall == Val(survey_call')

HadAnswer ==
    \E r \in question_answers : /\ r.s_id = ThisCall.survey_id
                                /\ r.revolori_id = ThisCall.revolori_id

AllStored ==
    \A j \in 1..Len(ThisCall.answers) :
        QuestionAnswerRow(ThisCall.survey_id, ThisCall.answers[j].question_id,
                          ThisCall.revolori_id, ThisCall.answers[j].answer)
            \in question_answers'

\* C24: a call by a user who has a stored answer for the survey raises
\* SurveyAlreadyAnswered and stores nothing; for a user without one and an
\* existing survey, start_survey returns the survey's questions and
\* submit_survey stores every submitted answer.
C24_AnsweredOnce ==
    [][/\ HadAnswer =>
            /\ survey_result' = Raise("SurveyAlreadyAnswered")
            /\ question_answers' = question_answers
       /\ (~HadAnswer /\ ThisCall.survey_id \in surveys) =>
            IF ThisCall.op = "start_survey"
            THEN survey_result' = Return(SurveyQuestions(ThisCall.survey_id))
            ELSE AllStored]_vars

\* C25: a call for a survey that does not exist raises InvalidSurveyId and
\* stores nothing, whoever calls and whatever is submitted.
C25_InvalidSurveyId ==
    [][ThisCall.survey_id \notin surveys =>
            /\ survey_result' = Raise("InvalidSurveyId")
            /\ question_answers' = question_answers]_vars

C25_Witness ==
    /\ survey_result = Raise("InvalidSurveyId")
    /\ Val(survey_call).op = "submit_survey"
    /\ Len(Val(survey_call).answers) = 2
    /\ \E r \in question_answers :
           r.revolori_id = Val(survey_call).revolori_id

\* C29: a submit_survey that fails while storing leaves none of its answers
\* stored, and the user can still start the survey.
C29_AllOrNothing ==
    [][(ThisCall.op = "submit_survey"
        /\ survey_result' = Raise("IntegrityError")) =>
            /\ question_answers' = question_answers
            /\ guard_survey_access(surveys, question_answers',
                                   ThisCall.survey_id,
                                   ThisCall.revolori_id).tag = "return"]_vars


(***************************************************************************)
(* SpecSingleton: a class decorated with @singleton (util/__init__.py      *)
(* lines 6-46) whose __init__(self, variable) stores its argument, as in   *)
(* test_singleton.py lines 83-88. An instance is known by its identity,    *)
(* its position in instances; references records every constructor call    *)
(* with the identity it returned.                                          *)
(***************************************************************************)
MaxCalls == 3

InitArgs == {0, 5, 10}

FieldValues == {0, 1, 10}

Reference(args, id) == [args |-> args, instance |-> id]

InitSingleton ==
    /\ singleton_instance = None
    /\ instances = << >>
    /\ init_calls = << >>
    /\ references = << >>
    /\ IdleScore /\ IdleSelect /\ IdleMechanism /\ IdleVignette
    /\ IdleRender /\ IdleSurvey /\ IdleStudy /\ IdleRace

\* Faulty variant: the new instance is not kept in _singleton.
Construct_Unstored ==
    /\ Len(references) < MaxCalls
    /\ \E args \in InitArgs :
         /\ instances' = Append(instances, [variable |-> args])
         /\ init_calls' = Append(init_calls, args)
         /\ references' =
                Append(references, Reference(args, Len(instances) + 1))
         /\ UNCHANGED singleton_instance
    /\ UNCHANGED <<scoreVars, selectVars, mechanismVars, vignetteVars,
                   renderVars, surveyVars, studyVars, raceVars>>

\* SingletonWrapper.__new__, lines 34-42.
Construct ==
    /\ Len(references) < MaxCalls
    /\ \E args \in InitArgs :
         IF ~IsNone(singleton_instance)
         THEN /\ references' =
                     Append(references,
                            Reference(args, Val(singleton_instance)))
              /\ UNCHANGED <<singleton_instance, instances, init_calls>>
         ELSE /\ instances' = Append(instances, [variable |-> args])
              /\ init_calls' = Append(init_calls, args)
              /\ singleton_instance' = Some(Len(instances) + 1)
              /\ references' =
                     Append(references, Reference(args, Len(instances) + 1))
    /\ UNCHANGED <<scoreVars, selectVars, mechanismVars, vignetteVars,
                   renderVars, surveyVars, studyVars, raceVars>>

\* An assignment to the attribute through one of the references held
\* (test_singleton.py lines 21-26 and 93).
SetVariable ==
    /\ \E j \in 1..Len(references), v \in FieldValues :
         instances' =
             [instances EXCEPT ![references[j].instance].variable = v]
    /\ UNCHANGED <<singleton_instance, init_calls, references>>
    /\ UNCHANGED <<scoreVars, selectVars, mechanismVars, vignetteVars,
                   renderVars, surveyVars, studyVars, raceVars>>

NextSingleton == Construct \/ SetVariable

SpecSingleton == InitSingleton /\ [][NextSingleton]_vars

\* What a reference shows of its instance.
Seen(j) == instances[references[j].instance].variable

\* C26: all constructor calls returned the same instance, __init__ ran
\* once, with the arguments of the first call, and every reference shows
\* the same state.
C26_OneInstance ==
    references # << >> =>
        /\ \A j \in 1..Len(references) :
               /\ references[j].instance = references[1].instance
               /\ Seen(j) = Seen(1)
        /\ init_calls = <<references[1].args>>
        /\ Len(instances) = 1

C26_Witness ==
    /\ Len(references) = 3
    /\ references[1].args = 0
    /\ references[2].args = 10
    /\ references[3].args = 5
    /\ Seen(1) = 1
    /\ Seen(3) = 1


(***************************************************************************)
(* SpecStudy: the study service (vignette_logic.py) over table             *)
(* question_answer of the study database, whose primary key is             *)
(* (q_id, s_id, vignette_id). The survey database holds the answered       *)
(* questions and the EmployeeModel of user "u"; user "v" has none.         *)
(***************************************************************************)
VignetteAnswerBuildPlan(vid, q, ans) ==
    [vignette_id |-> vid, question_id |-> q, answer |-> ans]

StudyAnswerRow(vid, q, u, ans) ==
    [vignette_id |-> vid, q_id |-> q, s_id |-> u, answer |-> ans]

\* study_crud.py lines 313-322: QuestionAnswer JOIN StudyResult; the
\* StudyResult of a row is stored with it (lines 66-76).
get_answered_questions_by_uuid(rows, u) == {r \in rows : r.s_id = u}

\* Faulty variant: one stored answer is not enough.
guard_study_access_MoreThanOne(rows, u) ==
    IF Cardinality(get_answered_questions_by_uuid(rows, u)) > 1
    THEN Raise("StudyAlreadyParticipated")
    ELSE Return(<< >>)

\* vignette_logic.py lines 39-47.
guard_study_access(rows, u) ==
    IF Cardinality(get_answered_questions_by_uuid(rows, u)) > 0
    THEN Raise("StudyAlreadyParticipated")
    ELSE Return(<< >>)

\* incentive.py lines 131-161 as one call: the EmployeeModel stored after it
\* and what it did.
get_employee_incentive(stored, rows) ==
    IF ~IsNone(stored) THEN [stored |-> stored, result |-> Return(stored)]
    ELSE IF rows = << >> THEN [stored |-> stored, result |-> Return(None)]
    ELSE LET configuration == calculate_delivery_and_incentive(rows)
         IN  IF configuration.tag = "raise"
             THEN [stored |-> stored, result |-> configuration]
             ELSE IF IsNone(configuration.value)
             THEN [stored |-> stored, result |-> Return(None)]
             ELSE LET created ==
                          Some(EmployeeModel(
                                   Val(configuration.value).delivery_model,
                                   Val(configuration.value).incentive_type))
                  IN  [stored |-> created, result |-> Return(created)]

\* vignette_logic.py lines 97-104 with study_crud.py lines 66-76 and
\* 23-30: one INSERT and one commit per answer; the INSERT of a key the table
\* holds raises and ends the loop.
RECURSIVE StoreStudyAnswers(_, _, _)
StoreStudyAnswers(rows, u, plans) ==
    IF plans = << >> THEN [rows |-> rows, result |-> Return(<< >>)]
    ELSE LET plan == Head(plans)
         IN  IF \E r \in rows : /\ r.q_id = plan.question_id
                                /\ r.s_id = u
                                /\ r.vignette_id = plan.vignette_id
             THEN [rows |-> rows, result |-> Raise("IntegrityError")]
             ELSE StoreStudyAnswers(
                      rows \cup {StudyAnswerRow(plan.vignette_id,
                                                plan.question_id, u,
                                                plan.answer)},
                      u, Tail(plans))

StudyCall(op, u, plans) == [op |-> op, uuid |-> u, answers |-> plans]

\* get_study_questions: the rows of table question of the study database.
StudyQuestions == <<1>>

StudyPlans ==
    {VignetteAnswerBuildPlan(vid, 1, ans) :
        vid \in {"v1", "v2"}, ans \in {<<"1">>, <<"3">>}}

StudyPlanLists ==
    {<< >>} \cup {<<p>> : p \in StudyPlans}
            \cup {<<p, q>> : p \in StudyPlans, q \in StudyPlans}

\* The answered survey questions of user "u": none, one of a delivery
\* factor, or one of a delivery and one of an incentive factor.
SurveyedAnswers ==
    LET d == QuestionAnswer(Some(<<"3">>),
                            Question(Some(1), Likert, Factor(Some(1), None)))
        i == QuestionAnswer(Some(<<"1">>),
                            Question(Some(1), LikertReverse,
                                     Factor(None, Some(1))))
    IN  {<< >>, <<d>>, <<d, i>>}

InitStudy ==
    /\ study_answers = {}
    /\ study_call = None
    /\ study_result = Pending
    /\ study_submitted = {}
    /\ answers \in SurveyedAnswers
    /\ employee_model = None /\ pc = "idle" /\ idx = 0
    /\ delivery_scores = << >> /\ incentive_scores = << >>
    /\ score_record = None /\ config = None /\ ret = None /\ exc = None
    /\ IdleScore /\ IdleSelect /\ IdleVignette
    /\ IdleRender /\ IdleSurvey /\ IdleSingleton /\ IdleRace

\* vignette_logic.py lines 49-79. The value returned stands for the pair
\* (vignettes, questions); the vignettes are those of SpecVignettes.
StartStudy ==
    /\ \E u \in Users :
         LET guard == guard_study_access(study_answers, u)
             incentive == get_employee_incentive(
                              employee_model,
                              IF u = "u" THEN answers ELSE << >>)
         IN  /\ study_call' = Some(StudyCall("start_study", u, << >>))
             /\ IF guard.tag = "raise"
                THEN study_result' = guard /\ UNCHANGED employee_model
                ELSE /\ employee_model' =
                            IF u = "u" THEN incentive.stored
                            ELSE employee_model
                     /\ study_result' = IF incentive.result.tag = "raise"
                                        THEN incentive.result
                                        ELSE Return(StudyQuestions)
    /\ UNCHANGED <<study_answers, study_submitted>>
    /\ UNCHANGED <<answers, pc, idx, delivery_scores, incentive_scores,
                   score_record, config, ret, exc>>
    /\ UNCHANGED <<scoreVars, selectVars, vignetteVars, renderVars,
                   surveyVars, singletonVars, raceVars>>

\* vignette_logic.py lines 81-104.
SubmitStudy ==
    /\ \E u \in Users, plans \in StudyPlanLists :
         LET guard == guard_study_access(study_answers, u)
             stored == StoreStudyAnswers(study_answers, u, plans)
         IN  /\ study_call' = Some(StudyCall("submit_study", u, plans))
             /\ IF guard.tag = "raise"
                THEN /\ study_result' = guard
                     /\ UNCHANGED <<study_answers, study_submitted>>
                ELSE /\ study_result' = stored.result
                     /\ study_answers' = stored.rows
                     /\ study_submitted' =
                            IF stored.result.tag = "return"
                            THEN study_submitted \cup {u}
                            ELSE study_submitted
    /\ UNCHANGED <<scoreVars, selectVars, mechanismVars, vignetteVars,
                   renderVars, surveyVars, singletonVars, raceVars>>

NextStudy == StartStudy \/ SubmitStudy

SpecStudy == InitStudy /\ [][NextStudy]_vars

ThisStudyCall == Val(study_call')

Participated ==
    get_answered_questions_by_uuid(study_answers, ThisStudyCall.uuid) # {}

\* C27: once submit_study has returned for a user, every later start_study
\* and submit_study of that user raises StudyAlreadyParticipated and stores
\* nothing.
C27_LockedAfterSubmit ==
    [][ThisStudyCall.uuid \in study_submitted =>
            /\ study_result' = Raise("StudyAlreadyParticipated")
            /\ study_answers' = study_answers]_vars

\* C27, amended: once an answer of a user is stored, every later
\* start_study and submit_study of that user raises
\* StudyAlreadyParticipated and stores nothing, so only one submission of a
\* user ever stores answers.
C27_LockedOnceStored ==
    [][/\ Participated =>
            /\ study_result' = Raise("StudyAlreadyParticipated")
            /\ study_answers' = study_answers
       /\ study_answers' # study_answers =>
            /\ ThisStudyCall.op = "submit_study"
            /\ ~Participated]_vars

C27_Witness ==
    /\ study_result = Raise("StudyAlreadyParticipated")
    /\ Val(study_call).op = "submit_study"
    /\ Len(Val(study_call).answers) = 2
    /\ Val(study_call).uuid \in study_submitted
    /\ Cardinality(get_answered_questions_by_uuid(
                       study_answers, Val(study_call).uuid)) = 2


(***************************************************************************)
(* The accumulator invariant, under Spec.                                  *)
(***************************************************************************)
\* The rows the loop has gone into: those before idx, and the row at idx
\* when it raised.
Entered ==
    IF pc = "raised" THEN SubSeq(answers, 1, idx)
    ELSE IF pc \in {"loop", "calculated", "done"}
    THEN SubSeq(answers, 1, Min(idx - 1, Len(answers)))
    ELSE << >>

\* The answer is an integer within the bounds of its answer type.
AnswerInRange(row) ==
    LET atype == row.question.answer_type
        number == ParseInt(Val(row.answer))
    IN  /\ ~IsNone(atype.most_negative) /\ ~IsNone(atype.most_positive)
        /\ ~IsNone(number)
        /\ Min(Val(atype.most_negative), Val(atype.most_positive))
               <= Val(number)
        /\ Val(number)
               <= Max(Val(atype.most_negative), Val(atype.most_positive))

Contributing(row) == ~Skipped(row)

AllScores ==
    {delivery_scores[n].score : n \in 1..Len(delivery_scores)}
        \cup {incentive_scores[n].score : n \in 1..Len(incentive_scores)}

UnitInterval(frac) == 0 <= frac.num /\ frac.num <= frac.den /\ frac.den > 0

\* C28: if every contributing row the loop has gone into holds an integer
\* within the bounds of its answer type and a non-negative weight, every
\* Score of both maps has minimum <= weighted_sum <= maximum and a
\* normalized value in [0, 1].
C28_AccumulatorInvariant ==
    (\A j \in 1..Len(Entered) :
         Contributing(Entered[j]) =>
             /\ AnswerInRange(Entered[j])
             /\ Val(Entered[j].question.weight) >= 0)
    => \A sc \in AllScores :
           /\ sc.minimum <= sc.weighted_sum
           /\ sc.weighted_sum <= sc.maximum
           /\ UnitInterval(Normalized(sc))

C28_Witness ==
    /\ pc = "calculated"
    /\ Len(answers) = 2
    /\ \A j \in 1..2 :
           /\ Contributing(answers[j])
           /\ ExactlyOne(answers[j])
           /\ AnswerInRange(answers[j])
           /\ Val(answers[j].question.weight) >= 0
    /\ \E j \in 1..2 : Val(answers[j].question.weight) = 2
    /\ \E sc \in AllScores :
           sc.minimum < sc.weighted_sum /\ sc.weighted_sum < sc.maximum


(***************************************************************************)
(* SpecRace: two calls of get_employee_incentive (incentive.py lines       *)
(* 131-161) for the same respondent, each in its own request thread with   *)
(* its own session (router.py lines 27-39 is a plain def, which the        *)
(* framework runs in a thread pool). The function takes no lock, so the    *)
(* calls interleave between their database statements.                     *)
(***************************************************************************)
Threads == {1, 2}

ThreadLocals(at, rows, configuration, result) ==
    [pc |-> at, answers |-> rows, configuration |-> configuration,
     result |-> result]

InitRace ==
    /\ answers \in SeqsUpTo(SubmittedRows, MaxAnswers)
    /\ employee_model \in StoredModels
    /\ procs = [t \in Threads |-> ThreadLocals("lookup", << >>, None, Pending)]
    /\ create_calls = 0
    /\ pc = "idle" /\ idx = 0
    /\ delivery_scores = << >> /\ incentive_scores = << >>
    /\ score_record = None /\ config = None /\ ret = None /\ exc = None
    /\ IdleScore /\ IdleSelect /\ IdleVignette
    /\ IdleRender /\ IdleServices

RaceUnchanged ==
    UNCHANGED <<answers, pc, idx, delivery_scores, incentive_scores,
                score_record, config, ret, exc, scoreVars, selectVars,
                vignetteVars, renderVars, serviceVars>>

\* Lines 142-145: get_employee_model_by_revolori_id.
LookupModel(t) ==
    /\ procs[t].pc = "lookup"
    /\ procs' = [procs EXCEPT ![t] =
                    IF ~IsNone(employee_model)
                    THEN ThreadLocals("done", << >>, None,
                                      Return(employee_model))
                    ELSE ThreadLocals("read", << >>, None, Pending)]
    /\ UNCHANGED <<employee_model, create_calls>>
    /\ RaceUnchanged

\* Lines 147-150: get_answered_questions_by_revolori_id.
ReadAnswers(t) ==
    /\ procs[t].pc = "read"
    /\ procs' = [procs EXCEPT ![t] =
                    IF Len(answers) = 0
                    THEN ThreadLocals("done", answers, None, Return(None))
                    ELSE ThreadLocals("calculate", answers, None, Pending)]
    /\ UNCHANGED <<employee_model, create_calls>>
    /\ RaceUnchanged

\* Line 153: calculate_delivery_and_incentive(answers), on the thread's own
\* list.
Calculate(t) ==
    /\ procs[t].pc = "calculate"
    /\ LET configuration == calculate_delivery_and_incentive(procs[t].answers)
       IN  procs' = [procs EXCEPT ![t] =
               IF configuration.tag = "raise"
               THEN ThreadLocals("raised", procs[t].answers, None,
                                 configuration)
               ELSE IF IsNone(configuration.value)
               THEN ThreadLocals("done", procs[t].answers, None, Return(None))
               ELSE ThreadLocals("create", procs[t].answers,
                                 configuration.value, Pending)]
    /\ UNCHANGED <<employee_model, create_calls>>
    /\ RaceUnchanged

\* Lines 154-160 with crud.py lines 519-543: the INSERT of a second row with
\* the respondent's primary key raises.
CreateModel(t) ==
    /\ procs[t].pc = "create"
    /\ create_calls' = create_calls + 1
    /\ LET created ==
               Some(EmployeeModel(Val(procs[t].configuration).delivery_model,
                                  Val(procs[t].configuration).incentive_type))
       IN  IF ~IsNone(employee_model)
           THEN /\ procs' = [procs EXCEPT ![t] =
                       ThreadLocals("raised", procs[t].answers,
                                    procs[t].configuration,
                                    Raise("IntegrityError"))]
                /\ UNCHANGED employee_model
           ELSE /\ procs' = [procs EXCEPT ![t] =
                       ThreadLocals("done", procs[t].answers,
                                    procs[t].configuration, Return(created))]
                /\ employee_model' = created
    /\ RaceUnchanged

NextRace ==
    \/ \E t \in Threads : LookupModel(t)
    \/ \E t \in Threads : ReadAnswers(t)
    \/ \E t \in Threads : Calculate(t)
    \/ \E t \in Threads : CreateModel(t)

SpecRace == InitRace /\ [][NextRace]_vars

\* C30: whatever the interleaving of the two calls,
\* create_employee_model_by_ids is executed at most once.
C30_AtMostOneCreate == create_calls <= 1

====
